---- MODULE Spec2Model ----
(***************************************************************************)
(* Adaptive routing and generation pipeline of the Ghost backend:          *)
(*   backend/ai.py   intent classifier, tier selector, overload guard      *)
(*                   (AdaptiveModelOptimizer), generation orchestrator     *)
(*   backend/main.py chat_stream.event_stream, the streaming emitter       *)
(*   backend/moderation.py soft_moderate                                   *)
(*                                                                         *)
(* Strings are sequences of tokens.  A token is a whitespace character,    *)
(* a punctuation character or a word; every operation on strings that the  *)
(* code performs (strip, split, join, len, regular-expression search for a *)
(* keyword between word boundaries) is computed on the tokens.             *)
(***************************************************************************)
EXTENDS Integers, Sequences, FiniteSets, TLC

(***************************************************************************)
(* Bounds of the model.                                                    *)
(***************************************************************************)
NumProcs == 2           \* concurrent callers of route()
MaxClock == 2           \* time.monotonic() takes the values 0..MaxClock
SpikeThreshold == 2     \* spike_threshold of the guard under test
SpikeWindowSeconds == 1 \* spike_window_seconds of the guard under test
AiTimeoutSeconds == 1   \* settings.ai_timeout_seconds
MaxWall == 4            \* time.time() takes the values 0..MaxWall
MaxSessions == 2        \* rows of the table sessions
ChatLimit == 2          \* limit of the rule of the /chat paths
DefaultLimit == 3       \* limit of the rule of the other paths
RateWindowSeconds == 2  \* window_seconds of both rules
LOGIN_WINDOW_SECONDS == 2       \* repository.py: 15 * 60, the same as the block
LOGIN_BLOCK_SECONDS == 2        \* repository.py: 15 * 60
AccessTtlSeconds == 1           \* settings.access_ttl_minutes * 60
SessionInactivitySeconds == 2   \* settings.session_inactivity_minutes * 60
RefreshTtlSeconds == 4          \* settings.refresh_ttl_days * 86400
MaxTokens == 3                  \* token bundles build_tokens issues

(***************************************************************************)
(* Program constants.                                                      *)
(***************************************************************************)
MaxConsecutiveStrong == 3   \* max_consecutive_strong (default)
LongMessageLength == 2000   \* select_model: message_length > 2000
ShortGreetingLength == 60   \* detect_intent: len(text) <= 60
ShortGreetingWords == 10    \* detect_intent: len(text.split()) <= 10
PreviewLength == 180        \* _provider_generate: normalized[:180]
MAX_LOGIN_ATTEMPTS == 6
MaxMessageLength == 4000    \* ChatRequest: message max_length

TIER_LIGHT == "tier_light"
TIER_STANDARD == "tier_standard"
TIER_REASONING == "tier_reasoning"
TIER_VISION == "tier_vision"

INTENT_CASUAL_CHAT == "casual_chat"
INTENT_KNOWLEDGE_QUESTION == "knowledge_question"
INTENT_CODING_TASK == "coding_task"
INTENT_DEBUGGING == "debugging"
INTENT_IMAGE_ANALYSIS == "image_analysis"
INTENT_EMOTIONAL_SUPPORT == "emotional_support"
INTENT_UNKNOWN == "unknown"

STRONG_TIERS == {TIER_REASONING, TIER_VISION}

None == "None"          \* Python's None, where a string or nothing is held

(***************************************************************************)
(* Strings as token sequences.                                             *)
(***************************************************************************)
Whitespace == {" ", "TAB"}

\* the alternatives of the six compiled patterns that the model's messages use
GREETING_PATTERN == {"hi", "hello", "thanks"}
KNOWLEDGE_PATTERN == {"what", "explain"}
CODING_PATTERN == {"code", "python", "fastapi"}
DEBUG_PATTERN == {"debug", "crash", "error", "traceback"}
IMAGE_PATTERN == {"image", "screenshot"}
EMOTIONAL_PATTERN == {"sad", "lonely"}

\* len() of one token, in characters
TokLen(t) ==
    CASE t \in Whitespace -> 1
      [] t = "?" -> 1
      [] t = "hi" -> 2
      [] t \in {"is", "in"} -> 2
      [] t = "sad" -> 3
      [] t \in {"this", "what", "code", "auth"} -> 4
      [] t \in {"ghost", "debug", "crash", "error", "image", "hello", "write"} -> 5
      [] t \in {"python", "parser", "thanks", "lonely"} -> 6
      [] t \in {"analyze", "fastapi", "explain"} -> 7
      [] t = "traceback" -> 9
      [] t \in {"dependency", "screenshot"} -> 10
      [] t = "injection" -> 9
      [] t = "!!" -> 2
      [] t = "bot" -> 3
      [] t \in {"hate", "kill"} -> 4
      [] t \in {"stupid", "STUPID"} -> 6
      [] t = "essay" -> 2001
      [] t = "pad179" -> 179
      [] t = "pad61" -> 61
      [] OTHER -> 3

RECURSIVE StrLen(_)
StrLen(s) == IF s = <<>> THEN 0 ELSE TokLen(Head(s)) + StrLen(Tail(s))

RECURSIVE LStrip(_)
LStrip(s) == IF s # <<>> /\ Head(s) \in Whitespace THEN LStrip(Tail(s)) ELSE s

RECURSIVE RStrip(_)
RStrip(s) ==
    IF s # <<>> /\ s[Len(s)] \in Whitespace THEN RStrip(SubSeq(s, 1, Len(s) - 1)) ELSE s

\* str.strip()
Strip(s) == RStrip(LStrip(s))

\* pattern.search(text): some alternative of the pattern occurs as a word
Search(pattern, s) == \E i \in 1..Len(s) : s[i] \in pattern

\* len(text.split()): the number of maximal runs of non-whitespace tokens
WordCount(s) ==
    Cardinality({i \in 1..Len(s) :
        s[i] \notin Whitespace /\ (i = 1 \/ s[i - 1] \in Whitespace)})

DetectIntentDebugFirst(message) ==
    LET text == Strip(message) IN
    IF text = <<>> THEN INTENT_UNKNOWN
    ELSE IF Search(DEBUG_PATTERN, text) THEN INTENT_DEBUGGING
    ELSE IF Search(IMAGE_PATTERN, text) THEN INTENT_IMAGE_ANALYSIS
    ELSE IF Search(CODING_PATTERN, text) THEN INTENT_CODING_TASK
    ELSE IF Search(EMOTIONAL_PATTERN, text) THEN INTENT_EMOTIONAL_SUPPORT
    ELSE IF StrLen(text) <= ShortGreetingLength /\ Search(GREETING_PATTERN, text)
        THEN INTENT_CASUAL_CHAT
    ELSE IF Search(KNOWLEDGE_PATTERN, text) \/ text[Len(text)] = "?"
        THEN INTENT_KNOWLEDGE_QUESTION
    ELSE IF WordCount(text) <= ShortGreetingWords /\ Search(GREETING_PATTERN, text)
        THEN INTENT_CASUAL_CHAT
    ELSE INTENT_UNKNOWN

detect_intent(message) ==
    LET text == Strip(message) IN
    IF text = <<>> THEN INTENT_UNKNOWN
    ELSE IF Search(IMAGE_PATTERN, text) THEN INTENT_IMAGE_ANALYSIS
    ELSE IF Search(DEBUG_PATTERN, text) THEN INTENT_DEBUGGING
    ELSE IF Search(CODING_PATTERN, text) THEN INTENT_CODING_TASK
    ELSE IF Search(EMOTIONAL_PATTERN, text) THEN INTENT_EMOTIONAL_SUPPORT
    ELSE IF StrLen(text) <= ShortGreetingLength /\ Search(GREETING_PATTERN, text)
        THEN INTENT_CASUAL_CHAT
    ELSE IF Search(KNOWLEDGE_PATTERN, text) \/ text[Len(text)] = "?"
        THEN INTENT_KNOWLEDGE_QUESTION
    ELSE IF WordCount(text) <= ShortGreetingWords /\ Search(GREETING_PATTERN, text)
        THEN INTENT_CASUAL_CHAT
    ELSE INTENT_UNKNOWN

SelectModelIntentFirst(intent, message_length) ==
    IF intent = INTENT_CASUAL_CHAT THEN TIER_LIGHT
    ELSE IF intent = INTENT_KNOWLEDGE_QUESTION THEN TIER_STANDARD
    ELSE IF intent \in {INTENT_CODING_TASK, INTENT_DEBUGGING} THEN TIER_REASONING
    ELSE IF intent = INTENT_IMAGE_ANALYSIS THEN TIER_VISION
    ELSE IF message_length > LongMessageLength THEN TIER_REASONING
    ELSE TIER_STANDARD

select_model(intent, message_length) ==
    IF message_length > LongMessageLength THEN TIER_REASONING
    ELSE IF intent = INTENT_CASUAL_CHAT THEN TIER_LIGHT
    ELSE IF intent = INTENT_KNOWLEDGE_QUESTION THEN TIER_STANDARD
    ELSE IF intent \in {INTENT_CODING_TASK, INTENT_DEBUGGING} THEN TIER_REASONING
    ELSE IF intent = INTENT_IMAGE_ANALYSIS THEN TIER_VISION
    ELSE IF intent = INTENT_EMOTIONAL_SUPPORT THEN TIER_STANDARD
    ELSE TIER_STANDARD

(***************************************************************************)
(* The messages the callers send.                                          *)
(***************************************************************************)
MsgHi == <<"hello", " ", "ghost">>
MsgDebug == <<"debug", " ", "crash">>
MsgWhat == <<"what", " ", "is", " ", "dependency", " ", "injection", "?">>
MsgBlank == <<" ">>

\* route() is driven with a light and a strong message, each with and
\* without an image attachment
RouteMessages == {MsgHi, MsgDebug}

(***************************************************************************)
(* AdaptiveModelOptimizer: the overload guard and route().                 *)
(***************************************************************************)
VARIABLES
    consecutive_strong,  \* self._consecutive_strong
    strong_requests,     \* self._strong_requests, a deque of timestamps
    lock,                \* self._lock: 0 when free, else the holder
    clock,               \* time.monotonic()
    pc,                  \* where each caller of route() stands
    locals,              \* the local variables of each call of route()
    due,                 \* history: at its prune step the call's now was past
                         \* the window of the oldest recorded event
    strongRun,           \* history: how many decisions in a row were strong
    spiked,              \* history: a usage_spike downgrade happened and no
                         \* strong tier was admitted since
    spc,                 \* where the event_stream generator of the request stands
    message,             \* event_stream: payload.message.strip()
    image_context,       \* event_stream: bool(payload.image_context)
    route,               \* event_stream: the RouteDecision of the request
    attempts,            \* the provider invocations of the request, in order
    ai_text,             \* event_stream: the text to deliver
    fallback_used,       \* event_stream: fallback_used
    routing_log,         \* rows save_routing_log wrote for the request
    assistant_messages,  \* texts save_message wrote with role assistant
    moderated,           \* event_stream: the ModerationResult
    frames,              \* the frames the generator has yielded so far
    connected,           \* the consumer of the stream is still connected
    deadline,            \* event_stream: the time at which wait_for gives up
    admitted,            \* history: the timestamps of the streamed requests
                         \* that route() returned a strong tier
    guardUpdates,        \* history: how often the update of lines 97-101 ran
                         \* for the streamed request
    wall,                \* time.time() in whole seconds, now_ts()
    limiter_events,      \* InMemoryRateLimiter._events: key -> deque of timestamps
    allowed,             \* what the last call of allow() returned, and for which key
    granted,             \* history: per key, the timestamps of the calls allowed
    login_attempts,      \* table login_attempts: key -> row
    sessions,            \* table sessions: id -> row
    tokens,              \* the refresh tokens build_tokens has issued
    response             \* what the last call of an auth endpoint answered

guardVars == <<consecutive_strong, strong_requests, lock, clock>>
callVars == <<pc, locals, due>>
histVars == <<strongRun, spiked>>
streamVars == <<spc, message, image_context, route, attempts, ai_text, fallback_used,
                routing_log, assistant_messages, moderated, frames,
               connected, deadline, admitted, guardUpdates>>

serviceVars == <<wall, limiter_events, allowed, granted, login_attempts, sessions, tokens,
                 response>>

Procs == 1..NumProcs
Clock == 0..MaxClock

NoLocals ==
    [intent |-> None, selected_tier |-> None, message_length |-> 0, now |-> 0,
     downgraded |-> FALSE, reason |-> None]

RECURSIVE ExpireInverted(_, _)
ExpireInverted(events, t) ==
    IF events # <<>> /\ Head(events) > t - SpikeWindowSeconds
    THEN ExpireInverted(Tail(events), t)
    ELSE events

ExpireKeepsAll(events, t) == events

RECURSIVE ExpireInclusive(_, _)
ExpireInclusive(events, t) ==
    IF events # <<>> /\ Head(events) <= t - SpikeWindowSeconds
    THEN ExpireInclusive(Tail(events), t)
    ELSE events

\* _expire_old_spike_events: pop from the left while the head is older than
\* now - spike_window_seconds
RECURSIVE expire_old_spike_events(_, _)
expire_old_spike_events(events, t) ==
    IF events # <<>> /\ Head(events) < t - SpikeWindowSeconds
    THEN expire_old_spike_events(Tail(events), t)
    ELSE events

ConsecutiveLimitOffByOne(count) == count > MaxConsecutiveStrong

\* line 88
ConsecutiveLimitReached(count) == count >= MaxConsecutiveStrong

SpikeThresholdOffByOne(events) == Len(events) > SpikeThreshold

\* line 92
SpikeThresholdReached(events) == Len(events) >= SpikeThreshold

AdmissionCheckSpikeFirst(l, count, events) ==
    IF l.selected_tier \in STRONG_TIERS
    THEN IF SpikeThresholdReached(events)
         THEN [l EXCEPT !.selected_tier = TIER_STANDARD, !.downgraded = TRUE,
                        !.reason = "usage_spike"]
         ELSE IF ConsecutiveLimitReached(count)
         THEN [l EXCEPT !.selected_tier = TIER_STANDARD, !.downgraded = TRUE,
                        !.reason = "consecutive_strong_limit"]
         ELSE l
    ELSE l

\* lines 87-95: the admission check on the locals l of a call
AdmissionCheck(l, count, events) ==
    IF l.selected_tier \in STRONG_TIERS
    THEN IF ConsecutiveLimitReached(count)
         THEN [l EXCEPT !.selected_tier = TIER_STANDARD, !.downgraded = TRUE,
                        !.reason = "consecutive_strong_limit"]
         ELSE IF SpikeThresholdReached(events)
         THEN [l EXCEPT !.selected_tier = TIER_STANDARD, !.downgraded = TRUE,
                        !.reason = "usage_spike"]
         ELSE l
    ELSE l

CountAfterKeepsStreak(l, count) ==
    IF l.selected_tier \in STRONG_TIERS THEN count + 1 ELSE count

\* lines 97-101: the counter and the spike record after the decision
CountAfter(l, count) ==
    IF l.selected_tier \in STRONG_TIERS THEN count + 1 ELSE 0

RecordAfterAlways(l, events) == Append(events, l.now)

RecordAfter(l, events) ==
    IF l.selected_tier \in STRONG_TIERS THEN Append(events, l.now) ELSE events

RoutingFailureKeepsIntent(l) ==
    [l EXCEPT !.selected_tier = TIER_STANDARD, !.reason = "routing_failure"]

\* lines 102-105: the handler of a fault inside the try block
RoutingFailure(l) ==
    [l EXCEPT !.intent = INTENT_UNKNOWN, !.selected_tier = TIER_STANDARD,
              !.reason = "routing_failure"]

ClassifiedKeepsTextIntent(msg, has_image, t) ==
    LET normalized == Strip(msg)
        intent == detect_intent(normalized)
    IN [NoLocals EXCEPT !.intent = intent,
                        !.message_length = StrLen(normalized),
                        !.selected_tier = select_model(intent, StrLen(normalized)),
                        !.now = t]

\* lines 70-82 without a fault: normalize, classify, select, read the clock
Classified(msg, has_image, t) ==
    LET normalized == Strip(msg)
        intent == IF has_image THEN INTENT_IMAGE_ANALYSIS ELSE detect_intent(normalized)
    IN [NoLocals EXCEPT !.intent = intent,
                        !.message_length = StrLen(normalized),
                        !.selected_tier = select_model(intent, StrLen(normalized)),
                        !.now = t]

\* lines 70-81 and then the handler: detect_intent raised (intent is still
\* unbound) or select_model raised (intent is bound, the tier is not)
Faulted(msg, has_image, stage) ==
    LET normalized == Strip(msg)
        intent == IF stage = "classify" THEN None
                  ELSE IF has_image THEN INTENT_IMAGE_ANALYSIS
                  ELSE detect_intent(normalized)
    IN RoutingFailure([NoLocals EXCEPT !.intent = intent,
                                       !.message_length = StrLen(normalized)])

RouteDecisionFlagFromTier(l) ==
    [intent |-> l.intent, model_tier |-> l.selected_tier,
     message_length |-> l.message_length,
     downgraded |-> l.selected_tier = TIER_STANDARD, reason |-> l.reason]

\* lines 108-115
RouteDecision(l) ==
    [intent |-> l.intent, model_tier |-> l.selected_tier,
     message_length |-> l.message_length, downgraded |-> l.downgraded,
     reason |-> l.reason]

RunAfter(l, run) == IF l.selected_tier \in STRONG_TIERS THEN run + 1 ELSE 0

SpikedAfter(l, s) ==
    IF l.selected_tier \in STRONG_TIERS THEN FALSE
    ELSE IF l.reason = "usage_spike" THEN TRUE
    ELSE s

(***************************************************************************)
(* Text of the generation orchestrator, the moderation and the emitter.    *)
(***************************************************************************)
RECURSIVE Join(_)
\* " ".join(words), every word a token sequence
Join(words) ==
    IF words = <<>> THEN <<>>
    ELSE IF Len(words) = 1 THEN words[1]
    ELSE words[1] \o <<" ">> \o Join(Tail(words))

RECURSIVE SplitOn(_, _, _)
\* the pieces of s between the separator tokens, empty pieces included;
\* cur is the piece being read
SplitOn(seps, s, cur) ==
    IF s = <<>> THEN <<cur>>
    ELSE IF Head(s) \in seps THEN <<cur>> \o SplitOn(seps, Tail(s), <<>>)
    ELSE SplitOn(seps, Tail(s), Append(cur, Head(s)))

\* text.split(" "): one piece per single space, empty pieces kept
SplitSpace(s) == SplitOn({" "}, s, <<>>)

\* text.split(): split on runs of whitespace, no empty pieces
SplitWhitespace(s) ==
    LET pieces == SplitOn(Whitespace, s, <<>>)
        F[i \in 0..Len(pieces)] ==
            IF i = 0 THEN <<>>
            ELSE IF pieces[i] = <<>> THEN F[i - 1]
            ELSE Append(F[i - 1], pieces[i])
    IN F[Len(pieces)]

NormalizeKeepsRuns(s) == Strip(s)

\* " ".join((message or "").split()).strip()
Normalize(s) == Strip(Join(SplitWhitespace(s)))

RECURSIVE Truncate(_, _)
\* s[:n]: a word that crosses the cut leaves a partial word
Truncate(s, n) ==
    IF s = <<>> \/ n <= 0 THEN <<>>
    ELSE IF TokLen(Head(s)) <= n THEN <<Head(s)>> \o Truncate(Tail(s), n - TokLen(Head(s)))
    ELSE <<"PART">>

\* a sentence written as its words
Words(ws) == Join([i \in 1..Len(ws) |-> <<ws[i]>>])

\* lines 257-268: the preamble chosen by intent, with its trailing space
Body(intent, has_image) ==
    IF intent = INTENT_DEBUGGING
    THEN Words(<<"Technical", "assistant", "mode", "enabled.", "Share", "logs,",
                 "expected", "behavior,", "and", "minimal", "reproduction",
                 "steps.">>) \o <<" ">>
    ELSE IF intent = INTENT_CODING_TASK
    THEN Words(<<"Implementation", "mode", "enabled.", "I", "will", "provide",
                 "concise", "and", "reliable", "coding", "guidance.">>) \o <<" ">>
    ELSE IF intent = INTENT_IMAGE_ANALYSIS \/ has_image
    THEN Words(<<"Image", "analysis", "mode", "enabled.", "I", "can", "inspect",
                 "text,", "structure,", "and", "visible", "anomalies", "from",
                 "the", "upload.">>) \o <<" ">>
    ELSE IF intent = INTENT_EMOTIONAL_SUPPORT
    THEN Words(<<"Support", "mode", "enabled.", "I", "will", "keep", "guidance",
                 "calm,", "practical,", "and", "non-judgmental.">>) \o <<" ">>
    ELSE IF intent = INTENT_CASUAL_CHAT
    THEN Words(<<"Light", "conversation", "mode", "enabled.">>) \o <<" ">>
    ELSE Words(<<"Standard", "assistance", "mode", "enabled.">>) \o <<" ">>

ProviderTextEcho(intent, msg, has_image) == Truncate(Normalize(msg), PreviewLength)

\* _provider_generate, lines 255-272: the text of a successful invocation
ProviderText(intent, msg, has_image) ==
    LET normalized == Normalize(msg) IN
    IF normalized # <<>>
    THEN Words(<<"Ghost", "is", "active.">>) \o <<" ">> \o Body(intent, has_image)
         \o <<"Focus:", " ", "DQUOTE">> \o Truncate(normalized, PreviewLength)
         \o <<"DQUOTE", ".">>
    ELSE Words(<<"Ghost", "is", "active.", "Standard", "assistance", "mode",
                 "enabled.", "Share", "your", "task", "and", "constraints.">>)

\* line 252: the injected transient failure, suppressed by force_stable
InjectedFault(force_stable, draw) == ~force_stable /\ draw

\* the invocation raises: the injected failure, or any other exception of
\* the provider call that the except clauses of lines 212 and 222 catch
ProviderRaises(force_stable, draw, broken) ==
    InjectedFault(force_stable, draw) \/ broken

\* ai.py line 223
FatalFallbackText ==
    Words(<<"Ghost", "fallback:", "assistant", "core", "is", "online.", "Please",
            "retry", "in", "a", "moment.">>)

\* main.py line 560
TimeoutFallbackText ==
    Words(<<"Ghost", "fallback:", "response", "timed", "out.", "Please", "retry.">>)

\* lines 206-211: the first invocation
FirstCall(rt) ==
    [model_tier |-> rt.model_tier, intent |-> rt.intent, force_stable |-> FALSE,
     outcome |-> "pending"]

RetryCallSameTier(rt) ==
    [model_tier |-> rt.model_tier, intent |-> rt.intent, force_stable |-> TRUE,
     outcome |-> "pending"]

\* lines 215-221: the retry
RetryCall(rt) ==
    [model_tier |-> TIER_STANDARD, intent |-> rt.intent, force_stable |-> TRUE,
     outcome |-> "pending"]

FailsafeDropsReason(msg, reason) ==
    [intent |-> detect_intent(msg), model_tier |-> TIER_STANDARD,
     message_length |-> StrLen(Strip(msg)), downgraded |-> FALSE, reason |-> None]

\* failsafe_decision, lines 127-135
failsafe_decision(msg, reason) ==
    [intent |-> detect_intent(msg), model_tier |-> TIER_STANDARD,
     message_length |-> StrLen(Strip(msg)), downgraded |-> FALSE, reason |-> reason]

\* moderation.py
OFFENSIVE_TERMS == {"stupid", "STUPID", "hate"}
AGGRESSIVE_MARKERS == {"!!", "kill"}
ALL_CAPS_PATTERN == {"STUPID"}

is_aggressive_context(msg) ==
    IF msg = <<>> THEN FALSE
    ELSE Search(OFFENSIVE_TERMS, msg)
         /\ (Search(AGGRESSIVE_MARKERS, msg) \/ Search(ALL_CAPS_PATTERN, msg))

\* TERM_PATTERN.sub(mask_match, text)
Mask(s) == [i \in 1..Len(s) |-> IF s[i] \in OFFENSIVE_TERMS THEN "[...]" ELSE s[i]]

soft_moderate(s, aggressive_context) ==
    IF s = <<>> \/ ~aggressive_context
    THEN [display_text |-> s, original_text |-> s, moderated |-> FALSE]
    ELSE [display_text |-> Mask(s), original_text |-> s, moderated |-> Mask(s) # s]

NoModeration == [display_text |-> <<>>, original_text |-> <<>>, moderated |-> FALSE]

MetaFrameDebugOnly(rt, has_image) ==
    [event |-> "meta",
     data |-> [debug_mode |-> rt.intent = INTENT_DEBUGGING,
               show_image_tools |-> has_image]]

\* main.py line 543
MetaFrame(rt, has_image) ==
    [event |-> "meta",
     data |-> [debug_mode |-> rt.intent \in {INTENT_DEBUGGING, INTENT_CODING_TASK},
               show_image_tools |-> has_image]]

\* main.py line 587
ChunkFrame(word) == [event |-> "chunk", data |-> [text |-> word \o <<" ">>]]

DoneFrameAlwaysRaw(m) ==
    [event |-> "done",
     data |-> [moderated |-> m.moderated, masked_text |-> m.display_text,
               raw_text |-> <<m.original_text>>]]

\* main.py lines 590-597; raw_text is <<text>> or, for None, <<>>
DoneFrame(m) ==
    [event |-> "done",
     data |-> [moderated |-> m.moderated, masked_text |-> m.display_text,
               raw_text |-> IF m.moderated THEN <<m.original_text>> ELSE <<>>]]

NextWordReversed(ws, i) == ws[Len(ws) + 1 - i]

\* main.py line 586: the i-th word of the for loop
NextWord(ws, i) == ws[i]

\* main.py lines 569-581
RoutingLogRow(rt, fallback) ==
    [intent |-> rt.intent,
     model_tier |-> IF rt.model_tier # None THEN rt.model_tier ELSE TIER_STANDARD,
     message_length |-> rt.message_length, fallback_used |-> fallback,
     downgraded |-> rt.downgraded, reason |-> rt.reason]

MsgRude == <<"stupid", " ", "bot", "!!">>
\* runs of whitespace inside the message and at its end
MsgSpaced == <<"hello", " ", " ", "TAB", "ghost", " ">>
\* the cut of normalized[:180] falls right after a space
MsgPadded == <<"pad179", " ", "ghost">>

\* the samples of the routing check
MsgHiGhost == <<"hi", " ", "ghost">>
MsgWriteCode ==
    Words(<<"write", "python", "fastapi", "code", "for", "auth">>)
MsgTraceback == Words(<<"debug", "traceback", "error", "in", "parser">>)
MsgAnalyze == Words(<<"analyze", "this", "image">>)

\* the payloads of /chat/stream
StreamMessages ==
    {MsgHi, MsgDebug, MsgWhat, MsgBlank, MsgRude, MsgSpaced, MsgPadded, MsgWriteCode}

(***************************************************************************)
(* The services around the chat endpoints: the rate limiter of the         *)
(* middleware, the login lockout and the sessions with their refresh       *)
(* tokens.  They read the wall clock, not the monotonic one.               *)
(***************************************************************************)
\* middleware.py line 52: the key is the client address and the path
RateKeys == {<<"ip1", "/chat/stream">>, <<"ip1", "/auth/login">>}
\* main.py lines 321-322: the key of a login is the client address and the
\* email; the users ann and bob are registered
Emails == {"ann", "bob"}
LoginKeys == {<<"ip1", email>> : email \in Emails}
UserId(email) == IF email = "ann" THEN 1 ELSE 2
SessionIds == 1..MaxSessions

\* no row of login_attempts under the key, no row of sessions under the id
NoAttempts == [found |-> FALSE, count |-> 0, first_attempt |-> 0, blocked_until |-> 0]
NoSession ==
    [found |-> FALSE, user_id |-> 0, refresh_jti_hash |-> <<"sha256", 0>>,
     last_active |-> 0, revoked |-> 0]

\* no call of allow() yet, no call of an auth endpoint yet
NoKey == <<None, None>>
NoAnswer == [key |-> NoKey, allowed |-> FALSE, retry_after |-> 0]
NoToken == [sid |-> 0, user_id |-> 0, jti |-> 0, iat |-> 0]
NoResponse ==
    [endpoint |-> None, status |-> 0, message |-> None, key |-> NoKey,
     token |-> NoToken, issued |-> NoToken]

Larger(a, b) == IF a >= b THEN a ELSE b

\* middleware.py lines 14-17 and 43-44
RateRule(limit, window_seconds) == [limit |-> limit, window_seconds |-> window_seconds]
DefaultRule == RateRule(DefaultLimit, RateWindowSeconds)
ChatRule == RateRule(ChatLimit, RateWindowSeconds)

\* line 51: path.startswith("/chat")
StartsWithChat(path) == path \in {"/chat", "/chat/stream"}
RuleOf(key) == IF StartsWithChat(key[2]) THEN ChatRule ELSE DefaultRule

\* lines 30-31: pop from the left while the head is older than the boundary
RECURSIVE PopExpired(_, _)
PopExpired(queue, boundary) ==
    IF queue # <<>> /\ Head(queue) < boundary
    THEN PopExpired(Tail(queue), boundary)
    ELSE queue

AllowRecordsRejected(queue, rule, now) ==
    LET kept == PopExpired(queue, now - rule.window_seconds)
    IN  IF Len(kept) >= rule.limit
        THEN [queue |-> Append(kept, now), allowed |-> FALSE,
              retry_after |-> Larger(1, rule.window_seconds - (now - kept[1]))]
        ELSE [queue |-> Append(kept, now), allowed |-> TRUE, retry_after |-> 0]

\* InMemoryRateLimiter.allow, lines 26-36, on the deque of the key: the
\* deque it leaves and the pair it returns
allow(queue, rule, now) ==
    LET kept == PopExpired(queue, now - rule.window_seconds)
    IN  IF Len(kept) >= rule.limit
        THEN [queue |-> kept, allowed |-> FALSE,
              retry_after |-> Larger(1, rule.window_seconds - (now - kept[1]))]
        ELSE [queue |-> Append(kept, now), allowed |-> TRUE, retry_after |-> 0]

(***************************************************************************)
(* repository.py: the login lockout.                                       *)
(***************************************************************************)
\* is_login_blocked, lines 145-162, on the row of the key: the pair it
\* returns and the row it leaves
is_login_blocked(row, now) ==
    IF ~row.found
    THEN [blocked |-> FALSE, retry_after |-> 0, row |-> row]
    ELSE IF row.blocked_until > now
    THEN [blocked |-> TRUE, retry_after |-> row.blocked_until - now, row |-> row]
    ELSE IF now - row.first_attempt > LOGIN_WINDOW_SECONDS
    THEN [blocked |-> FALSE, retry_after |-> 0, row |-> NoAttempts]
    ELSE [blocked |-> FALSE, retry_after |-> 0, row |-> row]

\* register_failed_login, lines 165-201, on the row of the key: the number
\* it returns and the row it leaves
register_failed_login(row, now) ==
    IF ~row.found
    THEN [retry_after |-> 0,
          row |-> [found |-> TRUE, count |-> 1, first_attempt |-> now,
                   blocked_until |-> 0]]
    ELSE IF row.blocked_until > now
    THEN [retry_after |-> row.blocked_until - now, row |-> row]
    ELSE LET expired == now - row.first_attempt > LOGIN_WINDOW_SECONDS
             count == IF expired THEN 1 ELSE row.count + 1
             first_attempt == IF expired THEN now ELSE row.first_attempt
             blocked_until == IF count >= MAX_LOGIN_ATTEMPTS
                              THEN now + LOGIN_BLOCK_SECONDS
                              ELSE row.blocked_until
         IN  [retry_after |-> Larger(0, blocked_until - now),
              row |-> [found |-> TRUE, count |-> count,
                       first_attempt |-> first_attempt,
                       blocked_until |-> blocked_until]]

(***************************************************************************)
(* security.py and main.py: token bundles and sessions.                    *)
(***************************************************************************)
\* security.py lines 90-91: sha256 has no collisions here
hash_refresh_jti(jti) == <<"sha256", jti>>

\* build_tokens, lines 53-79: the bundle for a session; the random jti is
\* one no bundle had before
build_tokens(user_id, sid, issued, now) ==
    [sid |-> sid, user_id |-> user_id, jti |-> Cardinality(issued) + 1, iat |-> now]

\* decode_access_token and decode_refresh_token accept a token until its exp
AccessTokenValid(token, now) == token.iat + AccessTtlSeconds > now
RefreshTokenValid(token, now) == token.iat + RefreshTtlSeconds > now

\* main.py lines 268-269
session_expired(last_active, now) == now - last_active > SessionInactivitySeconds

\* create_session, lines 66-82
create_session(table, sid, user_id, refresh_jti_hash, now) ==
    [table EXCEPT ![sid] = [found |-> TRUE, user_id |-> user_id,
                            refresh_jti_hash |-> refresh_jti_hash,
                            last_active |-> now, revoked |-> 0]]

\* update_session_activity, lines 102-107
update_session_activity(table, sid, now) ==
    [table EXCEPT ![sid].last_active = now]

RotateRefreshJtiKeepsHash(table, sid, refresh_jti_hash, now) ==
    IF table[sid].found /\ table[sid].revoked = 0
    THEN [table EXCEPT ![sid].last_active = now]
    ELSE table

\* rotate_refresh_jti, lines 110-115
rotate_refresh_jti(table, sid, refresh_jti_hash, now) ==
    IF table[sid].found /\ table[sid].revoked = 0
    THEN [table EXCEPT ![sid].refresh_jti_hash = refresh_jti_hash,
                       ![sid].last_active = now]
    ELSE table

\* revoke_session, lines 118-120
revoke_session(table, sid) ==
    IF table[sid].found THEN [table EXCEPT ![sid].revoked = 1] ELSE table

\* revoke_all_user_sessions, lines 123-125
revoke_all_user_sessions(table, user_id) ==
    [sid \in DOMAIN table |->
        IF table[sid].found /\ table[sid].user_id = user_id
        THEN [table[sid] EXCEPT !.revoked = 1]
        ELSE table[sid]]

\* the ids no session has yet: secrets.token_urlsafe(24) is a new one
FreeSessionIds(table) == {sid \in DOMAIN table : ~table[sid].found}

\* what an endpoint answered, to the login of which key or to which token,
\* and the bundle whose tokens it set as cookies
Answer(endpoint, status, msg, key, token, issued) ==
    [endpoint |-> endpoint, status |-> status, message |-> msg, key |-> key,
     token |-> token, issued |-> issued]

Init ==
    /\ consecutive_strong = 0
    /\ strong_requests = <<>>
    /\ lock = 0
    /\ clock = 0
    /\ pc = [p \in Procs |-> "idle"]
    /\ locals = [p \in Procs |-> NoLocals]
    /\ due = [p \in Procs |-> FALSE]
    /\ strongRun = 0
    /\ spiked = FALSE
    /\ spc = "idle"
    /\ message = <<>>
    /\ image_context = FALSE
    /\ route = RouteDecision(NoLocals)
    /\ attempts = <<>>
    /\ ai_text = <<>>
    /\ fallback_used = FALSE
    /\ routing_log = <<>>
    /\ assistant_messages = <<>>
    /\ moderated = NoModeration
    /\ frames = <<>>
    /\ connected = TRUE
    /\ deadline = 0
    /\ admitted = <<>>
    /\ guardUpdates = 0
    /\ wall = 0
    /\ limiter_events = [k \in RateKeys |-> <<>>]
    /\ allowed = NoAnswer
    /\ granted = [k \in RateKeys |-> <<>>]
    /\ login_attempts = [k \in LoginKeys |-> NoAttempts]
    /\ sessions = [sid \in SessionIds |-> NoSession]
    /\ tokens = {}
    /\ response = NoResponse

\* the monotonic clock advances
Tick ==
    /\ clock < MaxClock
    /\ clock' = clock + 1
    /\ UNCHANGED <<consecutive_strong, strong_requests, lock, callVars, histVars, streamVars>>
    /\ UNCHANGED serviceVars

\* route() up to the lock: lines 70-82
RouteEnter(p) ==
    /\ pc[p] = "idle"
    /\ \E msg \in RouteMessages, has_image \in BOOLEAN :
          locals' = [locals EXCEPT ![p] = Classified(msg, has_image, clock)]
    /\ pc' = [pc EXCEPT ![p] = "wait"]
    /\ UNCHANGED <<guardVars, due, histVars, streamVars>>
    /\ UNCHANGED serviceVars

\* route() when detect_intent or select_model raises: lines 70-81, 102-115
RouteFault(p) ==
    /\ pc[p] = "idle"
    /\ \E msg \in RouteMessages, has_image \in BOOLEAN, stage \in {"classify", "select"} :
          locals' = [locals EXCEPT ![p] = Faulted(msg, has_image, stage)]
    /\ pc' = [pc EXCEPT ![p] = "failed"]
    /\ UNCHANGED <<guardVars, due, histVars, streamVars>>
    /\ UNCHANGED serviceVars

AcquireWithoutExclusion(p) ==
    /\ pc[p] = "wait"
    /\ lock' = p
    /\ pc' = [pc EXCEPT ![p] = "expire"]
    /\ UNCHANGED <<consecutive_strong, strong_requests, clock, locals, due, histVars, streamVars>>
    /\ UNCHANGED serviceVars

\* line 84: with self._lock
Acquire(p) ==
    /\ pc[p] = "wait"
    /\ lock = 0
    /\ lock' = p
    /\ pc' = [pc EXCEPT ![p] = "expire"]
    /\ UNCHANGED <<consecutive_strong, strong_requests, clock, locals, due, histVars, streamVars>>
    /\ UNCHANGED serviceVars

\* line 85
Expire(p) ==
    /\ pc[p] = "expire"
    /\ strong_requests' = expire_old_spike_events(strong_requests, locals[p].now)
    /\ due' = [due EXCEPT ![p] = strong_requests # <<>>
                     /\ locals[p].now > Head(strong_requests) + SpikeWindowSeconds]
    /\ pc' = [pc EXCEPT ![p] = "check"]
    /\ UNCHANGED <<consecutive_strong, lock, clock, locals, histVars, streamVars>>
    /\ UNCHANGED serviceVars

\* lines 87-95
Check(p) ==
    /\ pc[p] = "check"
    /\ locals' = [locals EXCEPT
                    ![p] = AdmissionCheck(locals[p], consecutive_strong, strong_requests)]
    /\ pc' = [pc EXCEPT ![p] = "update"]
    /\ UNCHANGED <<guardVars, due, histVars, streamVars>>
    /\ UNCHANGED serviceVars

\* lines 97-101, the end of the with block and lines 107-125: the guard is
\* updated, the lock is released, and RouteDecision(locals[p]) is returned
Update(p) ==
    /\ pc[p] = "update"
    /\ consecutive_strong' = CountAfter(locals[p], consecutive_strong)
    /\ strong_requests' = RecordAfter(locals[p], strong_requests)
    /\ strongRun' = RunAfter(locals[p], strongRun)
    /\ spiked' = SpikedAfter(locals[p], spiked)
    /\ lock' = 0
    /\ pc' = [pc EXCEPT ![p] = "idle"]
    /\ locals' = [locals EXCEPT ![p] = NoLocals]
    /\ due' = [due EXCEPT ![p] = FALSE]
    /\ UNCHANGED <<clock, streamVars>>
    /\ UNCHANGED serviceVars

ReturnFailureResetsStreak(p) ==
    /\ pc[p] = "failed"
    /\ consecutive_strong' = 0
    /\ strong_requests' = expire_old_spike_events(strong_requests, clock)
    /\ pc' = [pc EXCEPT ![p] = "idle"]
    /\ locals' = [locals EXCEPT ![p] = NoLocals]
    /\ UNCHANGED <<lock, clock, due, histVars, streamVars>>
    /\ UNCHANGED serviceVars

\* lines 107-125 after the handler: the routing_failure decision is returned
ReturnFailure(p) ==
    /\ pc[p] = "failed"
    /\ pc' = [pc EXCEPT ![p] = "idle"]
    /\ locals' = [locals EXCEPT ![p] = NoLocals]
    /\ UNCHANGED <<guardVars, due, histVars, streamVars>>
    /\ UNCHANGED serviceVars

(***************************************************************************)
(* chat_stream.event_stream: one request after the other on the event      *)
(* loop.  The generator runs from one suspension point (a yield or an      *)
(* await) to the next in one step.                                         *)
(***************************************************************************)
\* the attempts with the outcome of the last one set
Settle(calls, outcome) == [calls EXCEPT ![Len(calls)].outcome = outcome]

\* main.py lines 535-543: route() runs to its end, then the meta frame is
\* yielded; fault is "none", or the stage of route() that raises
StreamStart ==
    /\ spc = "idle"
    /\ lock = 0
    /\ \E payload \in StreamMessages, has_image \in BOOLEAN,
          fault \in {"none", "classify", "select"} :
          LET msg == Strip(payload)
              entered == Classified(msg, has_image, clock)
              events == expire_old_spike_events(strong_requests, clock)
              decided == AdmissionCheck(entered, consecutive_strong, events)
          IN /\ message' = msg
             /\ image_context' = has_image
             /\ IF fault = "none"
                THEN /\ route' = RouteDecision(decided)
                     /\ consecutive_strong' = CountAfter(decided, consecutive_strong)
                     /\ strong_requests' = RecordAfter(decided, events)
                     /\ strongRun' = RunAfter(decided, strongRun)
                     /\ spiked' = SpikedAfter(decided, spiked)
                     /\ admitted' = IF route'.model_tier \in STRONG_TIERS
                                     THEN Append(admitted, clock) ELSE admitted
                     /\ guardUpdates' = 1
                ELSE /\ route' = RouteDecision(Faulted(msg, has_image, fault))
                     /\ guardUpdates' = 0
                     /\ UNCHANGED <<consecutive_strong, strong_requests, histVars,
                                    admitted>>
             /\ frames' = <<MetaFrame(route', has_image)>>
    /\ spc' = "meta"
    /\ UNCHANGED <<lock, clock, callVars, attempts, ai_text, fallback_used,
                   routing_log, assistant_messages, moderated, connected,
                   deadline>>
    /\ UNCHANGED serviceVars

\* wait_for of main.py line 545: the awaited call may still return, or the
\* deadline has elapsed
WithinDeadline == clock <= deadline
DeadlineElapsed == clock >= deadline

BeginGenerateReroutes ==
    /\ spc = "meta"
    /\ attempts' = <<FirstCall(route)>>
    /\ fallback_used' = FALSE
    /\ deadline' = clock + AiTimeoutSeconds
    /\ spc' = "attempt1"
    /\ consecutive_strong' = 0
    /\ guardUpdates' = guardUpdates + 1
    /\ UNCHANGED <<strong_requests, lock, clock, callVars, histVars, connected,
                   admitted, message, image_context, route, ai_text, routing_log,
                   assistant_messages, moderated, frames>>
    /\ UNCHANGED serviceVars

\* main.py lines 545-554, ai.py lines 200-211: wait_for sets the deadline,
\* generate_ai_response takes the route it is given and starts the first
\* provider invocation
BeginGenerate ==
    /\ spc = "meta"
    /\ attempts' = <<FirstCall(route)>>
    /\ fallback_used' = FALSE
    /\ deadline' = clock + AiTimeoutSeconds
    /\ spc' = "attempt1"
    /\ UNCHANGED <<guardVars, callVars, histVars, connected, admitted, guardUpdates,
                   message, image_context, route, ai_text, routing_log,
                   assistant_messages, moderated, frames>>
    /\ UNCHANGED serviceVars

\* ai.py lines 206-211 and 225-231, main.py lines 555-557
FirstSucceeds ==
    /\ spc = "attempt1"
    /\ WithinDeadline
    /\ \E draw, broken \in BOOLEAN : ~ProviderRaises(FALSE, draw, broken)
    /\ attempts' = Settle(attempts, "ok")
    /\ ai_text' = ProviderText(attempts[1].intent, message, image_context)
    /\ spc' = "generated"
    /\ UNCHANGED <<guardVars, callVars, histVars, connected, deadline, admitted,
                   guardUpdates,
                   message,
                   image_context, route,
                   fallback_used, routing_log, assistant_messages, moderated, frames>>
    /\ UNCHANGED serviceVars

\* ai.py lines 212-221: the first invocation raises, the retry is started
FirstFails ==
    /\ spc = "attempt1"
    /\ WithinDeadline
    /\ \E draw, broken \in BOOLEAN : ProviderRaises(FALSE, draw, broken)
    /\ attempts' = Append(Settle(attempts, "raised"), RetryCall(route))
    /\ fallback_used' = TRUE
    /\ spc' = "attempt2"
    /\ UNCHANGED <<guardVars, callVars, histVars, connected, deadline, admitted,
                   guardUpdates,
                   message,
                   image_context, route,
                   ai_text, routing_log, assistant_messages, moderated, frames>>
    /\ UNCHANGED serviceVars

\* ai.py lines 215-221 and 225-231, main.py lines 555-557
RetrySucceeds ==
    /\ spc = "attempt2"
    /\ WithinDeadline
    /\ \E draw, broken \in BOOLEAN : ~ProviderRaises(TRUE, draw, broken)
    /\ attempts' = Settle(attempts, "ok")
    /\ ai_text' = ProviderText(attempts[2].intent, message, image_context)
    /\ spc' = "generated"
    /\ UNCHANGED <<guardVars, callVars, histVars, connected, deadline, admitted,
                   guardUpdates,
                   message,
                   image_context, route,
                   fallback_used, routing_log, assistant_messages, moderated, frames>>
    /\ UNCHANGED serviceVars

\* ai.py lines 222-231, main.py lines 555-557: the retry raises too
RetryFails ==
    /\ spc = "attempt2"
    /\ WithinDeadline
    /\ \E draw, broken \in BOOLEAN : ProviderRaises(TRUE, draw, broken)
    /\ attempts' = Settle(attempts, "raised")
    /\ ai_text' = FatalFallbackText
    /\ spc' = "generated"
    /\ UNCHANGED <<guardVars, callVars, histVars, connected, deadline, admitted,
                   guardUpdates,
                   message,
                   image_context, route,
                   fallback_used, routing_log, assistant_messages, moderated, frames>>
    /\ UNCHANGED serviceVars

TimeoutHandledAsFailure ==
    /\ spc = "attempt1"
    /\ DeadlineElapsed
    /\ attempts' = Append(Settle(attempts, "raised"), RetryCall(route))
    /\ fallback_used' = TRUE
    /\ spc' = "attempt2"
    /\ UNCHANGED <<guardVars, callVars, histVars, connected, deadline, admitted,
                   guardUpdates,
                   message, image_context, route, ai_text, routing_log,
                   assistant_messages, moderated, frames>>
    /\ UNCHANGED serviceVars

TimeoutCutsStream ==
    /\ spc \in {"attempt1", "attempt2", "chunks"}
    /\ DeadlineElapsed
    /\ attempts' = Settle(attempts, "timeout")
    /\ route' = failsafe_decision(message, "provider_timeout")
    /\ ai_text' = TimeoutFallbackText
    /\ fallback_used' = TRUE
    /\ spc' = "generated"
    /\ UNCHANGED <<guardVars, callVars, histVars, connected, deadline, admitted,
                   guardUpdates,
                   message, image_context, routing_log, assistant_messages,
                   moderated, frames>>
    /\ UNCHANGED serviceVars

\* main.py lines 558-562: the deadline of wait_for elapses while an
\* invocation is awaited
Timeout ==
    /\ spc \in {"attempt1", "attempt2"}
    /\ DeadlineElapsed
    /\ attempts' = Settle(attempts, "timeout")
    /\ route' = failsafe_decision(message, "provider_timeout")
    /\ ai_text' = TimeoutFallbackText
    /\ fallback_used' = TRUE
    /\ spc' = "generated"
    /\ UNCHANGED <<guardVars, callVars, histVars, connected, deadline, admitted,
                   guardUpdates,
                   message, image_context, routing_log, assistant_messages,
                   moderated, frames>>
    /\ UNCHANGED serviceVars

\* main.py lines 569-584: the routing log row, the moderation, the message
Persist ==
    /\ spc = "generated"
    /\ routing_log' = Append(routing_log, RoutingLogRow(route, fallback_used))
    /\ moderated' = soft_moderate(ai_text, is_aggressive_context(message))
    /\ assistant_messages' = Append(assistant_messages, moderated'.original_text)
    /\ spc' = "chunks"
    /\ UNCHANGED <<guardVars, callVars, histVars, connected, deadline, admitted,
                   guardUpdates,
                   message,
                   image_context, route,
                   attempts, ai_text, fallback_used, frames>>
    /\ UNCHANGED serviceVars

\* the words of the for loop of line 586
StreamWords == SplitSpace(moderated.display_text)

\* main.py lines 586-588: the next chunk frame
EmitChunk ==
    /\ spc = "chunks"
    /\ Len(frames) <= Len(StreamWords)
    /\ frames' = Append(frames, ChunkFrame(NextWord(StreamWords, Len(frames))))
    /\ UNCHANGED <<guardVars, callVars, histVars, connected, deadline, admitted,
                   guardUpdates,
                   spc, message,
                   image_context, route,
                   attempts, ai_text, fallback_used, routing_log, assistant_messages,
                   moderated>>
    /\ UNCHANGED serviceVars

\* main.py lines 590-597: the loop is over, the done frame
EmitDone ==
    /\ spc = "chunks"
    /\ Len(frames) > Len(StreamWords)
    /\ frames' = Append(frames, DoneFrame(moderated))
    /\ spc' = "done"
    /\ UNCHANGED <<guardVars, callVars, histVars, connected, deadline, admitted,
                   guardUpdates,
                   message,
                   image_context, route,
                   attempts, ai_text, fallback_used, routing_log, assistant_messages,
                   moderated>>
    /\ UNCHANGED serviceVars

DisconnectCaughtAsFailure ==
    /\ connected
    /\ \/ spc \in {"meta", "attempt1", "attempt2", "done"}
       \/ spc = "chunks" /\ Len(frames) > 1
    /\ connected' = FALSE
    /\ IF spc = "attempt1"
       THEN /\ attempts' = Append(Settle(attempts, "raised"), RetryCall(route))
            /\ fallback_used' = TRUE
            /\ spc' = "attempt2"
       ELSE /\ attempts' = IF spc = "attempt2"
                           THEN Settle(attempts, "abandoned") ELSE attempts
            /\ spc' = "closed"
            /\ UNCHANGED fallback_used
    /\ UNCHANGED <<guardVars, callVars, histVars, deadline, admitted, guardUpdates,
                   message,
                   image_context, route, ai_text, routing_log, assistant_messages,
                   moderated, frames>>
    /\ UNCHANGED serviceVars

\* the consumer disconnects while the generator is suspended at a yield or
\* an await: the server cancels the response there, and the cancellation
\* passes every handler of event_stream and generate_ai_response, so the
\* generator is closed at that point
Disconnect ==
    /\ connected
    /\ \/ spc \in {"meta", "attempt1", "attempt2", "done"}
       \/ spc = "chunks" /\ Len(frames) > 1
    /\ connected' = FALSE
    /\ attempts' = IF spc \in {"attempt1", "attempt2"}
                   THEN Settle(attempts, "abandoned") ELSE attempts
    /\ spc' = "closed"
    /\ UNCHANGED <<guardVars, callVars, histVars, deadline, admitted, guardUpdates,
                   message,
                   image_context, route, ai_text, fallback_used, routing_log,
                   assistant_messages, moderated, frames>>
    /\ UNCHANGED serviceVars

\* the generator is exhausted or closed; the next request may come
Finish ==
    /\ spc \in {"done", "closed"}
    /\ spc' = "idle"
    /\ message' = <<>>
    /\ image_context' = FALSE
    /\ route' = RouteDecision(NoLocals)
    /\ attempts' = <<>>
    /\ ai_text' = <<>>
    /\ fallback_used' = FALSE
    /\ routing_log' = <<>>
    /\ assistant_messages' = <<>>
    /\ moderated' = NoModeration
    /\ frames' = <<>>
    /\ connected' = TRUE
    /\ deadline' = 0
    /\ guardUpdates' = 0
    /\ UNCHANGED <<guardVars, callVars, histVars, admitted>>
    /\ UNCHANGED serviceVars

FaultInsideKeepsLock(p) ==
    /\ pc[p] \in {"expire", "check", "update"}
    /\ locals' = [locals EXCEPT ![p] = RoutingFailure(locals[p])]
    /\ pc' = [pc EXCEPT ![p] = "failed"]
    /\ due' = [due EXCEPT ![p] = FALSE]
    /\ UNCHANGED <<guardVars, histVars, streamVars>>
    /\ UNCHANGED serviceVars

\* ai.py lines 84-105: an exception leaves the with block, whose exit
\* releases the lock, and reaches the handler of lines 102-105.  No
\* statement of lines 85-101 raises an Exception by itself (the deque is
\* popped only when it is not empty); the step stands for a fault from
\* outside the logic, such as a MemoryError of the append.
FaultInside(p) ==
    /\ pc[p] \in {"expire", "check", "update"}
    /\ lock' = 0
    /\ locals' = [locals EXCEPT ![p] = RoutingFailure(locals[p])]
    /\ pc' = [pc EXCEPT ![p] = "failed"]
    /\ due' = [due EXCEPT ![p] = FALSE]
    /\ UNCHANGED <<consecutive_strong, strong_requests, clock, histVars, streamVars>>
    /\ UNCHANGED serviceVars

(***************************************************************************)
(* The services.  Their handlers are coroutines of one event loop: allow() *)
(* finds its asyncio.Lock free and does not await inside it, the auth      *)
(* endpoints call the database synchronously, so each runs in one step.    *)
(***************************************************************************)
\* time.time() advances
WallTick ==
    /\ wall < MaxWall
    /\ wall' = wall + 1
    /\ UNCHANGED <<limiter_events, allowed, granted, login_attempts, sessions,
                   tokens, response>>
    /\ UNCHANGED <<guardVars, callVars, histVars, streamVars>>

\* RequestContextMiddleware.dispatch, lines 46-58: the request of a client
\* for a path is allowed or answered 429
dispatch(key) ==
    /\ LET answer == allow(limiter_events[key], RuleOf(key), wall)
       IN  /\ limiter_events' = [limiter_events EXCEPT ![key] = answer.queue]
           /\ allowed' = [key |-> key, allowed |-> answer.allowed,
                          retry_after |-> answer.retry_after]
           /\ granted' = IF answer.allowed
                         THEN [granted EXCEPT ![key] = Append(@, wall)]
                         ELSE granted
    /\ UNCHANGED <<wall, login_attempts, sessions, tokens, response>>
    /\ UNCHANGED <<guardVars, callVars, histVars, streamVars>>

\* main.py lines 389-423: POST /auth/login for the key, with the right
\* password or a wrong one
login(key, password_ok) ==
    LET checked == is_login_blocked(login_attempts[key], wall)
        failed == register_failed_login(checked.row, wall)
        user_id == UserId(key[2])
    IN  /\ IF checked.blocked
           THEN /\ login_attempts' = [login_attempts EXCEPT ![key] = checked.row]
                /\ response' = Answer("login", 429, "Too many attempts", key, NoToken, NoToken)
                /\ UNCHANGED <<sessions, tokens>>
           ELSE IF ~password_ok
           THEN /\ login_attempts' = [login_attempts EXCEPT ![key] = failed.row]
                /\ response' = IF failed.retry_after > 0
                               THEN Answer("login", 429, "Too many attempts", key, NoToken, NoToken)
                               ELSE Answer("login", 401, "Invalid credentials", key, NoToken, NoToken)
                /\ UNCHANGED <<sessions, tokens>>
           ELSE /\ FreeSessionIds(sessions) # {}
                /\ Cardinality(tokens) < MaxTokens
                /\ LET sid == CHOOSE id \in FreeSessionIds(sessions) :
                                  \A other \in FreeSessionIds(sessions) : id <= other
                       bundle == build_tokens(user_id, sid, tokens, wall)
                   IN  /\ login_attempts' = [login_attempts EXCEPT ![key] = NoAttempts]
                       /\ sessions' = create_session(sessions, sid, user_id,
                                                     hash_refresh_jti(bundle.jti), wall)
                       /\ tokens' = tokens \cup {bundle}
                       /\ response' = Answer("login", 200, "ok", key, NoToken, bundle)
        /\ UNCHANGED <<wall, limiter_events, allowed, granted>>
        /\ UNCHANGED <<guardVars, callVars, histVars, streamVars>>

\* main.py lines 426-463: POST /auth/refresh with a refresh token that
\* build_tokens issued
refresh(token) ==
    LET session == sessions[token.sid]
        bundle == build_tokens(session.user_id, token.sid, tokens, wall)
    IN  /\ IF ~RefreshTokenValid(token, wall)
           THEN /\ response' = Answer("refresh", 401, "Invalid refresh token", NoKey, token, NoToken)
                /\ UNCHANGED <<sessions, tokens>>
           ELSE IF ~session.found \/ session.revoked # 0
           THEN /\ response' = Answer("refresh", 401, "Session revoked", NoKey, token, NoToken)
                /\ UNCHANGED <<sessions, tokens>>
           ELSE IF session_expired(session.last_active, wall)
           THEN /\ sessions' = revoke_session(sessions, token.sid)
                /\ response' = Answer("refresh", 401, "Session expired", NoKey, token, NoToken)
                /\ UNCHANGED tokens
           ELSE IF hash_refresh_jti(token.jti) # session.refresh_jti_hash
           THEN /\ sessions' = revoke_all_user_sessions(sessions, session.user_id)
                /\ response' = Answer("refresh", 401, "Compromised session detected", NoKey,
                                      token, NoToken)
                /\ UNCHANGED tokens
           ELSE /\ Cardinality(tokens) < MaxTokens
                /\ sessions' = rotate_refresh_jti(sessions, token.sid,
                                                  hash_refresh_jti(bundle.jti), wall)
                /\ tokens' = tokens \cup {bundle}
                /\ response' = Answer("refresh", 200, "Session refreshed", NoKey,
                                      token, bundle)
        /\ UNCHANGED <<wall, limiter_events, allowed, granted, login_attempts>>
        /\ UNCHANGED <<guardVars, callVars, histVars, streamVars>>

\* main.py lines 285-318: a request with the access token of a bundle is
\* authenticated or answered 401
load_auth_context(token) ==
    LET session == sessions[token.sid]
    IN  /\ IF ~AccessTokenValid(token, wall)
           THEN /\ response' = Answer("auth", 401, "Invalid access token", NoKey, token, NoToken)
                /\ UNCHANGED sessions
           ELSE IF ~session.found \/ session.revoked # 0
           THEN /\ response' = Answer("auth", 401, "Session revoked", NoKey, token, NoToken)
                /\ UNCHANGED sessions
           ELSE IF session_expired(session.last_active, wall)
           THEN /\ sessions' = revoke_session(sessions, token.sid)
                /\ response' = Answer("auth", 401, "Session expired", NoKey, token, NoToken)
           ELSE /\ sessions' = update_session_activity(sessions, token.sid, wall)
                /\ response' = Answer("auth", 200, "ok", NoKey, token, NoToken)
        /\ UNCHANGED <<wall, limiter_events, allowed, granted, login_attempts, tokens>>
        /\ UNCHANGED <<guardVars, callVars, histVars, streamVars>>

\* main.py lines 466-481: POST /auth/logout with the access token of a
\* bundle
logout(token) ==
    /\ sessions' = IF AccessTokenValid(token, wall)
                   THEN revoke_session(sessions, token.sid)
                   ELSE sessions
    /\ response' = Answer("logout", 200, "Logged out", NoKey, token, NoToken)
    /\ UNCHANGED <<wall, limiter_events, allowed, granted, login_attempts, tokens>>
    /\ UNCHANGED <<guardVars, callVars, histVars, streamVars>>

vars == <<guardVars, callVars, histVars, streamVars, serviceVars>>

Next ==
    \/ Tick
    \/ \E p \in Procs : RouteEnter(p)
    \/ \E p \in Procs : RouteFault(p)
    \/ \E p \in Procs : Acquire(p)
    \/ \E p \in Procs : Expire(p)
    \/ \E p \in Procs : Check(p)
    \/ \E p \in Procs : Update(p)
    \/ \E p \in Procs : ReturnFailure(p)

Spec == Init /\ [][Next]_vars

NextStream ==
    \/ Tick
    \/ StreamStart
    \/ BeginGenerate
    \/ FirstSucceeds
    \/ FirstFails
    \/ RetrySucceeds
    \/ RetryFails
    \/ Timeout
    \/ Persist
    \/ EmitChunk
    \/ EmitDone
    \/ Disconnect
    \/ Finish

SpecStream == Init /\ [][NextStream]_vars

\* the requests that pass the rate limiter of the middleware
NextLimiter ==
    \/ WallTick
    \/ \E key \in RateKeys : dispatch(key)

SpecLimiter == Init /\ [][NextLimiter]_vars

\* the logins of the clients, with the right password and with wrong ones
NextLogin ==
    \/ WallTick
    \/ \E key \in LoginKeys, password_ok \in BOOLEAN : login(key, password_ok)

SpecLogin == Init /\ [][NextLogin]_vars

\* the sessions of clients that log in with the right password
NextAuth ==
    \/ WallTick
    \/ \E key \in LoginKeys : login(key, TRUE)
    \/ \E token \in tokens : refresh(token)
    \/ \E token \in tokens : load_auth_context(token)
    \/ \E token \in tokens : logout(token)

SpecAuth == Init /\ [][NextAuth]_vars

\* the callers of route() with a fault inside the critical section
NextGuard ==
    \/ Tick
    \/ \E p \in Procs : RouteEnter(p)
    \/ \E p \in Procs : RouteFault(p)
    \/ \E p \in Procs : Acquire(p)
    \/ \E p \in Procs : Expire(p)
    \/ \E p \in Procs : Check(p)
    \/ \E p \in Procs : Update(p)
    \/ \E p \in Procs : FaultInside(p)
    \/ \E p \in Procs : ReturnFailure(p)

\* Fairness of the callers: a thread that can run a statement of route()
\* runs it in the end (the interpreter switches between runnable threads),
\* and a thread blocked in the acquire of line 84 gets the lock in the end
\* if the lock is free again and again (strong fairness: threading.Lock
\* has no queue, other callers may take it first).
SpecGuardFair ==
    /\ Init
    /\ [][NextGuard]_vars
    /\ \A p \in Procs : SF_vars(Acquire(p))
    /\ \A p \in Procs : WF_vars(Expire(p) \/ Check(p) \/ Update(p))
    /\ \A p \in Procs : WF_vars(ReturnFailure(p))

\* Fairness of the request: the event loop resumes the generator after every
\* yield that the consumer reads and after every asyncio.sleep(0.02); the
\* statements of lines 569-584 follow the generation without a suspension.
\* one request of /chat/stream, from its start to the end of its generator
NextRequest ==
    \/ Tick
    \/ StreamStart
    \/ BeginGenerate
    \/ FirstSucceeds
    \/ FirstFails
    \/ RetrySucceeds
    \/ RetryFails
    \/ Timeout
    \/ Persist
    \/ EmitChunk
    \/ EmitDone
    \/ Disconnect

SpecRequestFair ==
    /\ Init
    /\ [][NextRequest]_vars
    /\ WF_vars(Persist)
    /\ WF_vars(EmitChunk)
    /\ WF_vars(EmitDone)

(***************************************************************************)
(* Properties of the overload guard.                                       *)
(***************************************************************************)
Tiers == {TIER_LIGHT, TIER_STANDARD, TIER_REASONING, TIER_VISION}
Intents == {INTENT_CASUAL_CHAT, INTENT_KNOWLEDGE_QUESTION, INTENT_CODING_TASK,
            INTENT_DEBUGGING, INTENT_IMAGE_ANALYSIS, INTENT_EMOTIONAL_SUPPORT,
            INTENT_UNKNOWN}

\* the tier the call asked for, before the guard looked at it
Candidate(l) == select_model(l.intent, l.message_length)

Admitted(l) ==
    l.selected_tier = Candidate(l) /\ ~l.downgraded /\ l.reason = None

Downgraded(l, why) ==
    l.selected_tier = TIER_STANDARD /\ l.downgraded /\ l.reason = why

\* a call stands at "update" when its admission check is done and the guard
\* is not yet updated: the guard state is the one the check has read
Decided(p) == pc[p] = "update"

\* C1: while the spike threshold is not reached, a strong candidate is
\* admitted as long as fewer than max_consecutive_strong strong decisions
\* precede it in a row, and is otherwise returned as standard, downgraded,
\* with reason consecutive_strong_limit; no max_consecutive_strong + 1
\* decisions in a row are strong.
ConsecutiveStrongLimit ==
    /\ strongRun <= MaxConsecutiveStrong
    /\ \A p \in Procs :
          (/\ Decided(p)
           /\ Candidate(locals[p]) \in STRONG_TIERS
           /\ Len(strong_requests) < SpikeThreshold)
          => IF strongRun < MaxConsecutiveStrong
             THEN Admitted(locals[p])
             ELSE Downgraded(locals[p], "consecutive_strong_limit")

ConsecutiveStrongLimitWitness ==
    \E p \in Procs :
        /\ Decided(p)
        /\ strongRun = MaxConsecutiveStrong
        /\ Len(strong_requests) < SpikeThreshold
        /\ Downgraded(locals[p], "consecutive_strong_limit")

InCriticalSection == {p \in Procs : pc[p] \in {"expire", "check", "update"}}

\* C2: the check and the update of a call are one atomic step: at most one
\* call is between its prune step and its update, a call that is about to
\* record a strong tier still finds a free slot under both limits, the
\* spike record never holds more than spike_threshold entries and the
\* counter never exceeds max_consecutive_strong.
AtomicAdmission ==
    /\ Cardinality(InCriticalSection) <= 1
    /\ \A p \in InCriticalSection : lock = p
    /\ Len(strong_requests) <= SpikeThreshold
    /\ consecutive_strong <= MaxConsecutiveStrong
    /\ \A p \in Procs :
          (Decided(p) /\ locals[p].selected_tier \in STRONG_TIERS)
          => /\ consecutive_strong < MaxConsecutiveStrong
             /\ Len(strong_requests) < SpikeThreshold

\* two strong candidates are in flight, one takes the last slot
AtomicAdmissionWitness ==
    \E p, q \in Procs :
        /\ p # q
        /\ Decided(p)
        /\ Admitted(locals[p])
        /\ locals[p].selected_tier \in STRONG_TIERS
        /\ \/ Len(strong_requests) = SpikeThreshold - 1
           \/ consecutive_strong = MaxConsecutiveStrong - 1
        /\ pc[q] = "wait"
        /\ locals[q].selected_tier \in STRONG_TIERS

\* C3 as stated: once spike_threshold strong assignments are recorded in the
\* window, the next strong candidate is returned as standard, downgraded,
\* with reason usage_spike.
SpikeWindowAlwaysUsageSpike ==
    \A p \in Procs :
        (/\ Decided(p)
         /\ Candidate(locals[p]) \in STRONG_TIERS
         /\ Len(strong_requests) >= SpikeThreshold)
        => Downgraded(locals[p], "usage_spike")

\* C3 amended: once spike_threshold strong assignments are recorded in the
\* window, the next strong candidate is returned as standard and downgraded;
\* its reason is usage_spike when the consecutive-strong limit is not
\* reached, and consecutive_strong_limit when it is.
SpikeWindow ==
    \A p \in Procs :
        (/\ Decided(p)
         /\ Candidate(locals[p]) \in STRONG_TIERS
         /\ Len(strong_requests) >= SpikeThreshold)
        => IF consecutive_strong >= MaxConsecutiveStrong
           THEN Downgraded(locals[p], "consecutive_strong_limit")
           ELSE Downgraded(locals[p], "usage_spike")

SpikeWindowWitness ==
    \E p \in Procs :
        /\ Decided(p)
        /\ Len(strong_requests) >= SpikeThreshold
        /\ Downgraded(locals[p], "usage_spike")

\* C4: after a usage_spike downgrade, a call whose clock reading is past
\* spike_window_seconds from the oldest recorded event prunes that event,
\* and if its candidate is strong it is admitted as strong.
SpikeRecovery ==
    \A p \in Procs :
        /\ (pc[p] \in {"check", "update"} /\ due[p])
           => \/ strong_requests = <<>>
              \/ Head(strong_requests) >= locals[p].now - SpikeWindowSeconds
        /\ (/\ Decided(p)
            /\ due[p]
            /\ spiked
            /\ Candidate(locals[p]) \in STRONG_TIERS)
           => Admitted(locals[p])

SpikeRecoveryWitness ==
    \E p \in Procs :
        /\ Decided(p)
        /\ due[p]
        /\ spiked
        /\ locals[p].selected_tier \in STRONG_TIERS

\* C5: route() always ends with a complete decision, and when classification
\* or tier selection faults the decision is intent unknown, tier standard,
\* not downgraded, reason routing_failure.
FailOpenRouting ==
    \A p \in Procs :
        /\ pc[p] \in {"idle", "wait", "expire", "check", "update", "failed"}
        /\ pc[p] \in {"update", "failed"}
           => /\ RouteDecision(locals[p]).intent \in Intents
              /\ RouteDecision(locals[p]).model_tier \in Tiers
        /\ pc[p] = "failed"
           => /\ RouteDecision(locals[p]).intent = INTENT_UNKNOWN
              /\ RouteDecision(locals[p]).model_tier = TIER_STANDARD
              /\ RouteDecision(locals[p]).downgraded = FALSE
              /\ RouteDecision(locals[p]).reason = "routing_failure"

FailOpenRoutingWitness ==
    \E p \in Procs :
        /\ pc[p] = "failed"
        /\ RouteDecision(locals[p]).reason = "routing_failure"

(***************************************************************************)
(* Properties of the generation orchestrator and the streaming emitter.    *)
(***************************************************************************)
\* the deadline elapsed during an invocation of the request
TimedOut == \E i \in 1..Len(attempts) : attempts[i].outcome = "timeout"

\* the generation phase of the request is over
AfterGeneration == spc \in {"generated", "chunks", "done"}

\* generate_ai_response has returned its envelope: its text is ai_text
EnvelopeReturned == AfterGeneration /\ ~TimedOut

BothFailed ==
    /\ Len(attempts) = 2
    /\ attempts[1].outcome = "raised"
    /\ attempts[2].outcome = "raised"

\* C6: whatever the provider invocations do (the first succeeds, the first
\* raises and the retry succeeds, both raise), generate_ai_response returns
\* an envelope with a non-empty text and no fault reaches its caller.
GenerationTotal ==
    /\ spc \in {"idle", "meta", "attempt1", "attempt2", "generated", "chunks",
                "done", "closed"}
    /\ EnvelopeReturned
       => /\ ai_text # <<>>
          /\ StrLen(ai_text) > 0
          /\ \/ Len(attempts) = 1 /\ attempts[1].outcome = "ok"
             \/ Len(attempts) = 2 /\ attempts[1].outcome = "raised"
                /\ attempts[2].outcome \in {"ok", "raised"}

GenerationTotalWitness ==
    /\ spc = "generated"
    /\ BothFailed
    /\ ai_text # <<>>

\* C7: the provider is invoked at most twice per request; a second
\* invocation is made exactly when the first one raised, and it is made
\* against the standard tier with force_stable, whatever tier the decision
\* carried; when the first invocation succeeds there is no retry.
TieredRetry ==
    /\ Len(attempts) <= 2
    /\ Len(attempts) >= 1
       => /\ ~attempts[1].force_stable
          /\ attempts[1].outcome = "raised" <=> Len(attempts) = 2
          /\ attempts[1].outcome = "ok" => Len(attempts) = 1
    /\ Len(attempts) = 2
       => /\ attempts[2].model_tier = TIER_STANDARD
          /\ attempts[2].force_stable

TieredRetryWitness ==
    /\ Len(attempts) = 2
    /\ attempts[1].model_tier \in STRONG_TIERS
    /\ attempts[2].outcome = "ok"
    /\ spc = "generated"

\* C8: when the deadline elapses during the first invocation or the retry,
\* the text is the timeout fallback sentence, fallback_used is true, and the
\* decision of the request, also the one written to the routing log, is the
\* failsafe decision: tier standard, not downgraded, reason provider_timeout.
ProviderTimeout ==
    (TimedOut /\ AfterGeneration)
    => /\ ai_text = TimeoutFallbackText
       /\ fallback_used
       /\ route.intent = detect_intent(message)
       /\ route.model_tier = TIER_STANDARD
       /\ ~route.downgraded
       /\ route.reason = "provider_timeout"
       /\ spc \in {"chunks", "done"}
          => /\ Len(routing_log) = 1
             /\ routing_log[1].reason = "provider_timeout"
             /\ routing_log[1].model_tier = TIER_STANDARD
             /\ routing_log[1].fallback_used

ProviderTimeoutWitness ==
    /\ spc = "chunks"
    /\ Len(attempts) = 2
    /\ attempts[2].outcome = "timeout"
    /\ Len(routing_log) = 1
    /\ routing_log[1].reason = "provider_timeout"

\* C9: when the first invocation and the stabilized retry both raise, the
\* text is a literal fallback sentence and the decision written to the
\* routing log carries reason provider_failure.
ProviderFatalFailure ==
    (BothFailed /\ spc \in {"chunks", "done"})
    => /\ ai_text = FatalFallbackText
       /\ Len(routing_log) = 1
       /\ routing_log[1].reason = "provider_failure"

\* C10: the frames of a stream are one meta frame, then the chunk frames in
\* the order of the words of the text, then one done frame; meta is first,
\* done is last, and a stream that ran to completion has all of them.
FrameOrdering ==
    LET ws == StreamWords IN
    /\ \A i \in 1..Len(frames) :
          /\ frames[i].event \in {"meta", "chunk", "done"}
          /\ frames[i].event = "meta" <=> i = 1
          /\ frames[i].event = "done"
             => i = Len(frames) /\ i = Len(ws) + 2 /\ spc \in {"done", "closed"}
          /\ frames[i].event = "chunk"
             => /\ i - 1 <= Len(ws)
                /\ frames[i].data.text = ws[i - 1] \o <<" ">>
    /\ spc = "done"
       => /\ Len(frames) = Len(ws) + 2
          /\ frames[Len(frames)].event = "done"
    /\ spc \in {"meta", "attempt1", "attempt2", "generated"} => Len(frames) = 1

FrameOrderingWitness ==
    /\ spc = "done"
    /\ Len(attempts) = 2
    /\ attempts[2].outcome = "ok"
    /\ Len(frames) > 3

(***************************************************************************)
(* detect_intent, select_model and the head of route() as functions of     *)
(* their arguments: the arguments are drawn at the start, one step applies *)
(* one of the functions.  message and image_context hold the arguments of  *)
(* detect_intent and of route(), route.intent and route.message_length the *)
(* arguments of select_model; the result is written into route.            *)
(***************************************************************************)
\* one alternative of each of the six patterns
Keywords == {"image", "debug", "code", "sad", "hello", "what"}

\* no keyword, one keyword, two different keywords in either order
KeywordRuns ==
    {<<>>} \cup {<<k>> : k \in Keywords}
           \cup {<<k[1], " ", k[2]>> : k \in {q \in Keywords \X Keywords : q[1] # q[2]}}

\* ten short words and one long word: more than ShortGreetingWords words
ElevenWords ==
    Words(<<"w1", "w2", "w3", "w4", "w5", "w6", "w7", "w8", "w9", "w10", "pad61">>)

\* nothing, a word longer than ShortGreetingLength, more than
\* ShortGreetingWords words, a word longer than LongMessageLength
Paddings == {<<>>, <<"pad61">>, ElevenWords, <<"essay">>}

Endings == {<<>>, <<"?">>}

\* the keywords, then the padding, then the ending
Compose(k, pad, e) ==
    (IF k # <<>> /\ pad # <<>> THEN k \o <<" ">> \o pad ELSE k \o pad) \o e

PureMessages ==
    {Compose(k, pad, e) : k \in KeywordRuns, pad \in Paddings, e \in Endings}
        \cup {MsgBlank, <<" ", "hello", "TAB">>, MsgHiGhost, MsgWhat, MsgWriteCode,
               MsgTraceback, MsgAnalyze}

\* the seven intents and a string that is none of them
PureIntents ==
    {INTENT_CASUAL_CHAT, INTENT_KNOWLEDGE_QUESTION, INTENT_CODING_TASK,
     INTENT_DEBUGGING, INTENT_IMAGE_ANALYSIS, INTENT_EMOTIONAL_SUPPORT,
     INTENT_UNKNOWN, "smalltalk"}

PureLengths ==
    {0, 1, ShortGreetingLength, LongMessageLength, LongMessageLength + 1,
     MaxMessageLength}

InitPure ==
    /\ consecutive_strong = 0
    /\ strong_requests = <<>>
    /\ lock = 0
    /\ clock = 0
    /\ pc = [p \in Procs |-> "idle"]
    /\ locals = [p \in Procs |-> NoLocals]
    /\ due = [p \in Procs |-> FALSE]
    /\ strongRun = 0
    /\ spiked = FALSE
    /\ spc = "input"
    /\ message \in PureMessages
    /\ image_context \in BOOLEAN
    /\ \E intent \in PureIntents, message_length \in PureLengths :
          route = [RouteDecision(NoLocals) EXCEPT !.intent = intent,
                                                  !.message_length = message_length]
    /\ attempts = <<>>
    /\ ai_text = <<>>
    /\ fallback_used = FALSE
    /\ routing_log = <<>>
    /\ assistant_messages = <<>>
    /\ moderated = NoModeration
    /\ frames = <<>>
    /\ connected = TRUE
    /\ deadline = 0
    /\ admitted = <<>>
    /\ guardUpdates = 0
    /\ wall = 0
    /\ limiter_events = [k \in RateKeys |-> <<>>]
    /\ allowed = NoAnswer
    /\ granted = [k \in RateKeys |-> <<>>]
    /\ login_attempts = [k \in LoginKeys |-> NoAttempts]
    /\ sessions = [sid \in SessionIds |-> NoSession]
    /\ tokens = {}
    /\ response = NoResponse

\* intent = detect_intent(message)
ApplyDetectIntent ==
    /\ spc = "input"
    /\ route' = [route EXCEPT !.intent = detect_intent(message)]
    /\ spc' = "detected"
    /\ UNCHANGED <<guardVars, callVars, histVars, connected, deadline, admitted,
                   guardUpdates,
                   message,
                   image_context, attempts,
                   ai_text, fallback_used, routing_log, assistant_messages,
                   moderated, frames>>
    /\ UNCHANGED serviceVars

\* tier = select_model(intent, message_length)
ApplySelectModel ==
    /\ spc = "input"
    /\ route' = [route EXCEPT
                    !.model_tier = select_model(route.intent, route.message_length)]
    /\ spc' = "selected"
    /\ UNCHANGED <<guardVars, callVars, histVars, connected, deadline, admitted,
                   guardUpdates,
                   message,
                   image_context, attempts,
                   ai_text, fallback_used, routing_log, assistant_messages,
                   moderated, frames>>
    /\ UNCHANGED serviceVars

\* route(message, has_image) up to the lock, ai.py lines 70-82: the intent
\* and the tier selected for it, before the guard sees it
ApplyClassified ==
    /\ spc = "input"
    /\ route' = RouteDecision(Classified(message, image_context, clock))
    /\ spc' = "classified"
    /\ UNCHANGED <<guardVars, callVars, histVars, connected, deadline, admitted,
                   guardUpdates,
                   message,
                   image_context, attempts,
                   ai_text, fallback_used, routing_log, assistant_messages,
                   moderated, frames>>
    /\ UNCHANGED serviceVars

NextPure ==
    \/ ApplyDetectIntent
    \/ ApplySelectModel
    \/ ApplyClassified

SpecPure == InitPure /\ [][NextPure]_vars

(***************************************************************************)
(* Properties of the chunking of the emitter.                              *)
(***************************************************************************)
\* the chunk frame that carries one word followed by one space
WordChunk(w) == [event |-> "chunk", data |-> [text |-> w \o <<" ">>]]

\* the text "a b c"
TextABC == <<"a", " ", "b", " ", "c">>

\* C11: the chunk frames of a stream are the whitespace-delimited words of
\* the finalized text, one frame per word in the order of the text, each
\* word followed by one space; a completed stream has as many chunk frames
\* as the text has words, between the meta and the done frame.  The loop of
\* the emitter turns the text "a b c" into chunk("a "), chunk("b "),
\* chunk("c ").
Chunking ==
    /\ spc \in {"chunks", "done"} =>
          LET ws == SplitWhitespace(moderated.display_text)
              n == IF spc = "done" THEN Len(frames) - 2 ELSE Len(frames) - 1
          IN /\ n <= Len(ws)
             /\ spc = "done" => n = Len(ws)
             /\ \A i \in 1..n : frames[i + 1] = WordChunk(ws[i])
    /\ LET abc == SplitSpace(TextABC) IN
          [i \in 1..Len(abc) |-> ChunkFrame(NextWord(abc, i))]
              = <<WordChunk(<<"a">>), WordChunk(<<"b">>), WordChunk(<<"c">>)>>

\* a completed stream of a provider text whose message had runs of
\* whitespace, and one whose preview was cut right after a space
ChunkingWitness ==
    /\ spc = "done"
    /\ ~TimedOut /\ ~BothFailed
    /\ \/ \E i \in 1..Len(message) : message[i] = "TAB"
       \/ message = MsgPadded /\ Len(frames) > 3

(***************************************************************************)
(* Properties of the classification and of the tier selection.             *)
(***************************************************************************)
\* some token of the text is an alternative of the pattern
Mentions(pattern, text) == {text[i] : i \in 1..Len(text)} \cap pattern # {}

\* C12 as stated: a request with an image attachment is routed with intent
\* image_analysis and, before any downgrade, tier vision, whatever the
\* text of the message and its length.
ImageAttachmentAlwaysVision ==
    (spc = "classified" /\ image_context) =>
        /\ route.intent = INTENT_IMAGE_ANALYSIS
        /\ route.model_tier = TIER_VISION

\* C12: a request with an image attachment is routed with intent
\* image_analysis whatever the text of the message; the tier selected
\* before any downgrade is vision when the stripped message has at most
\* 2000 characters and reasoning when it has more.
ImageAttachment ==
    (spc = "classified" /\ image_context) =>
        /\ route.intent = INTENT_IMAGE_ANALYSIS
        /\ route.message_length <= LongMessageLength => route.model_tier = TIER_VISION
        /\ route.message_length > LongMessageLength => route.model_tier = TIER_REASONING

\* an image attached to a message that asks for debugging
ImageAttachmentWitness ==
    /\ spc = "classified"
    /\ image_context
    /\ Mentions(DEBUG_PATTERN, message)
    /\ ~Mentions(IMAGE_PATTERN, message)
    /\ route.message_length <= LongMessageLength
    /\ route.model_tier = TIER_VISION

\* C13: select_model is the ordered rule table: a length above 2000 gives
\* reasoning whatever the intent; otherwise casual_chat gives light,
\* knowledge_question standard, coding_task and debugging reasoning,
\* image_analysis vision, and emotional_support, unknown and every other
\* string standard.
TierSelection ==
    spc = "selected" =>
        LET intent == route.intent
            n == route.message_length
            tier == route.model_tier
        IN /\ n > 2000 => tier = "tier_reasoning"
           /\ (n <= 2000 /\ intent = "casual_chat") => tier = "tier_light"
           /\ (n <= 2000 /\ intent = "knowledge_question") => tier = "tier_standard"
           /\ (n <= 2000 /\ intent \in {"coding_task", "debugging"})
                 => tier = "tier_reasoning"
           /\ (n <= 2000 /\ intent = "image_analysis") => tier = "tier_vision"
           /\ (n <= 2000 /\ intent \notin {"casual_chat", "knowledge_question",
                    "coding_task", "debugging", "image_analysis"})
                 => tier = "tier_standard"

\* a casual message longer than 2000 characters is given reasoning
TierSelectionWitness ==
    /\ spc = "selected"
    /\ route.intent = INTENT_CASUAL_CHAT
    /\ route.message_length > LongMessageLength
    /\ route.model_tier = TIER_REASONING

\* the rules of the classifier in their order, on the stripped text
RuleHolds(k, text) ==
    CASE k = 1 -> text = <<>>
      [] k = 2 -> Mentions(IMAGE_PATTERN, text)
      [] k = 3 -> Mentions(DEBUG_PATTERN, text)
      [] k = 4 -> Mentions(CODING_PATTERN, text)
      [] k = 5 -> Mentions(EMOTIONAL_PATTERN, text)
      [] k = 6 -> StrLen(text) <= 60 /\ Mentions(GREETING_PATTERN, text)
      [] k = 7 -> Mentions(KNOWLEDGE_PATTERN, text)
                    \/ (text # <<>> /\ text[Len(text)] = "?")
      [] k = 8 -> Len(SplitWhitespace(text)) <= 10 /\ Mentions(GREETING_PATTERN, text)
      [] OTHER -> TRUE

RuleIntent(k) ==
    CASE k = 2 -> "image_analysis"
      [] k = 3 -> "debugging"
      [] k = 4 -> "coding_task"
      [] k = 5 -> "emotional_support"
      [] k \in {6, 8} -> "casual_chat"
      [] k = 7 -> "knowledge_question"
      [] OTHER -> "unknown"

FirstRule(text) ==
    CHOOSE k \in 1..9 : RuleHolds(k, text) /\ \A j \in 1..(k - 1) : ~RuleHolds(j, text)

\* C14: detect_intent returns the intent of the first rule, in the fixed
\* order, that the stripped text matches: empty text, image keyword,
\* debugging keyword, coding keyword, emotional keyword, greeting in at
\* most 60 characters, knowledge keyword or final question mark, greeting
\* in at most 10 words, otherwise unknown.  A text with an image keyword is
\* image_analysis also when it has debugging or coding keywords.
IntentClassification ==
    spc = "detected" =>
        LET text == Strip(message) IN
        /\ route.intent = RuleIntent(FirstRule(text))
        /\ (text # <<>> /\ Mentions(IMAGE_PATTERN, text))
              => route.intent = INTENT_IMAGE_ANALYSIS

\* a text with a debugging keyword before an image keyword
IntentClassificationWitness ==
    /\ spc = "detected"
    /\ message = <<"debug", " ", "image">>
    /\ route.intent = INTENT_IMAGE_ANALYSIS

(***************************************************************************)
(* Properties of the guard state.                                          *)
(***************************************************************************)
\* in this step the call of p returns its decision
Returns(p) == pc[p] \in {"update", "failed"} /\ pc'[p] = "idle"

\* the counter after a call that returns tier: one more, or zero
CountedAs(tier) ==
    IF tier \in STRONG_TIERS
    THEN consecutive_strong' = consecutive_strong + 1
    ELSE consecutive_strong' = 0

\* C15 as stated: a call of route() resets the counter to zero exactly when
\* the tier it returns is light or standard, a call that returns a strong
\* tier adds one, and nothing else changes the counter.
StreakResetOnEveryNonStrong ==
    [][/\ \A p \in Procs : Returns(p) => CountedAs(locals[p].selected_tier)
       /\ (\A p \in Procs : ~Returns(p)) => consecutive_strong' = consecutive_strong
      ]_vars

\* C15: a call of route() that reaches the admission step resets the
\* counter to zero exactly when the tier it returns is light or standard
\* (a downgrade included) and adds one when it returns a strong tier; a call
\* that returns the routing_failure decision leaves the counter as it is,
\* although its tier is standard; nothing else changes the counter.
StreakReset ==
    [][/\ \A p \in Procs :
            (Returns(p) /\ pc[p] = "update") => CountedAs(locals[p].selected_tier)
       /\ (\A p \in Procs : ~(Returns(p) /\ pc[p] = "update"))
            => consecutive_strong' = consecutive_strong
      ]_vars

\* a streak is running while one call is about to return the
\* routing_failure decision and another one a downgrade
StreakResetWitness ==
    /\ consecutive_strong > 0
    /\ \E p \in Procs : pc[p] = "failed" /\ locals[p].selected_tier = TIER_STANDARD
    /\ \E p \in Procs : pc[p] = "update" /\ locals[p].downgraded

\* C16: at every admission check, after the pruning inside the critical
\* section, the spike record has no timestamp older than the now of the
\* checking call minus the window, however the concurrent calls interleave.
NoStaleSpikeEntries ==
    \A p \in Procs :
        pc[p] = "check" =>
            \A i \in 1..Len(strong_requests) :
                strong_requests[i] >= locals[p].now - SpikeWindowSeconds

\* C17: the spike record is ordered by time, oldest first, in every
\* reachable state, also when the calls take the lock in another order
\* than they read the clock.
SpikeRecordOrdered ==
    \A i, j \in 1..Len(strong_requests) :
        i < j => strong_requests[i] <= strong_requests[j]

(***************************************************************************)
(* Properties of the stream under a disconnect of the consumer.            *)
(***************************************************************************)
\* C18: once the consumer has disconnected, no frame is emitted and no
\* provider invocation is started: a step that ends with the consumer
\* disconnected adds neither a frame nor an invocation.
CancellationStopsEmission ==
    [][~connected' => (frames' = frames /\ Len(attempts') = Len(attempts))]_vars

\* the consumer went away while the first provider invocation was awaited
CancellationStopsEmissionWitness ==
    /\ ~connected
    /\ spc = "closed"
    /\ Len(frames) = 1
    /\ Len(attempts) = 1
    /\ attempts[1].outcome = "abandoned"

\* C19: when the consumer has disconnected after the first frame of the
\* stream, the routing log row and the assistant message of the request
\* have been handed to the persistence functions.
DisconnectKeepsResponse ==
    (~connected /\ Len(frames) >= 1) =>
        /\ Len(routing_log) = 1
        /\ Len(assistant_messages) = 1

\* the generation of the request has returned its text or has timed out
GenerationOver ==
    /\ attempts # <<>>
    /\ attempts[Len(attempts)].outcome \in {"ok", "raised", "timeout"}

\* C20: decision, generation and streaming follow one another: no frame,
\* the meta frame included, is emitted before the generation has completed
\* or timed out.
PhasesSequential == frames # <<>> => GenerationOver

(***************************************************************************)
(* Properties of the deadline, of the frames and of the envelope.          *)
(***************************************************************************)
\* C21: the deadline bounds the provider invocations only.  While the
\* consumer stays connected, a step taken during the chunk loop leaves the
\* frames as they are or adds one frame, and never leaves the loop except
\* by the done frame, whatever the clock shows; and once a text is
\* generated the stream reaches the done frame, with one chunk per word
\* before it, unless the consumer disconnects.
StreamOutlivesDeadline ==
    /\ [][(spc = "chunks" /\ connected') =>
            /\ spc' \in {"chunks", "done"}
            /\ frames' = frames \/ SubSeq(frames', 1, Len(frames)) = frames
            /\ Len(frames') <= Len(frames) + 1
            /\ ai_text' = ai_text]_vars
    /\ (spc = "generated") ~>
          \/ ~connected
          \/ /\ spc = "done"
             /\ Len(frames) = Len(SplitWhitespace(moderated.display_text)) + 2

\* a generated text whose stream ended after the deadline of its generation
StreamOutlivesDeadlineWitness ==
    /\ spc = "done"
    /\ connected
    /\ ~TimedOut
    /\ clock > deadline
    /\ Len(frames) > 3

\* the intent of the decision route() returned for the request
RoutedIntent == IF attempts = <<>> THEN route.intent ELSE attempts[1].intent

\* C22: the meta frame carries debug_mode = true exactly when the routed
\* intent is debugging or coding_task, so it is false for a request with an
\* image attachment and for a routing_failure decision, and
\* show_image_tools = true exactly when an image context is present.
MetaFlags ==
    frames # <<>> =>
        LET meta == frames[1] IN
        /\ meta.event = "meta"
        /\ meta.data.debug_mode <=> RoutedIntent \in {"debugging", "coding_task"}
        /\ meta.data.show_image_tools <=> image_context
        /\ image_context => ~meta.data.debug_mode
        /\ (spc = "meta" /\ route.reason = "routing_failure") => ~meta.data.debug_mode

\* a coding request in debug mode
MetaFlagsWitness ==
    /\ spc = "meta"
    /\ frames[1].data.debug_mode
    /\ ~frames[1].data.show_image_tools
    /\ route.intent = INTENT_CODING_TASK

\* the text that the chunk frames between the meta and the done frame
\* streamed: their words without the space that ends each chunk
StreamedText ==
    Join([i \in 1..(Len(frames) - 2) |->
            SubSeq(frames[i + 1].data.text, 1, Len(frames[i + 1].data.text) - 1)])

\* C23: the done frame carries the moderation status, the displayed text
\* and, exactly when the text was moderated, the original text: raw_text
\* is the original text if moderated is true and null otherwise, and
\* masked_text is the text whose words were streamed as chunks.
DoneCarries ==
    spc = "done" =>
        LET done == frames[Len(frames)].data IN
        /\ frames[Len(frames)].event = "done"
        /\ done.moderated <=> done.masked_text # ai_text
        /\ done.moderated => done.raw_text = <<ai_text>>
        /\ ~done.moderated => done.raw_text = <<>>
        /\ done.masked_text = StreamedText

\* a stream whose text was masked
DoneCarriesWitness ==
    /\ spc = "done"
    /\ frames[Len(frames)].data.moderated
    /\ frames[Len(frames)].data.raw_text = <<ai_text>>
    /\ \E i \in 1..Len(ai_text) : ai_text[i] \in OFFENSIVE_TERMS

\* this step is the route() call of a streamed request
RouteStep == spc = "idle" /\ spc' = "meta"

\* this step is the failsafe_decision call of a request that timed out
FailsafeStep ==
    /\ spc \in {"attempt1", "attempt2"}
    /\ attempts'[Len(attempts')].outcome = "timeout"

\* every step but the route() call leaves the counter and the spike record
\* as they are, and failsafe_decision returns tier standard, downgraded =
\* false and the reason it was given
GuardBypassed ==
    /\ ~RouteStep => /\ consecutive_strong' = consecutive_strong
                     /\ strong_requests' = strong_requests
    /\ (~RouteStep /\ spc' # "idle") => guardUpdates' = guardUpdates
    /\ FailsafeStep => /\ route'.model_tier = TIER_STANDARD
                       /\ ~route'.downgraded
                       /\ route'.reason = "provider_timeout"

\* C24 as stated: only route() changes the guard, failsafe_decision and
\* generate_ai_response with a supplied decision leave it unchanged, and
\* every streamed request is counted by the guard exactly once.
GuardCountsEveryRequestOnce ==
    [][GuardBypassed /\ (spc' # "idle" => guardUpdates' = 1)]_vars

\* C24: only route() changes the guard: failsafe_decision and
\* generate_ai_response with a supplied decision leave the counter and the
\* spike record unchanged, and failsafe_decision returns tier standard,
\* downgraded = false and the given reason; a streamed request is counted
\* by the guard once, also when it later times out or falls back, and not
\* at all when its route() call returned the routing_failure decision.
GuardCountsRequestOnce ==
    [][/\ GuardBypassed
       /\ RouteStep =>
             guardUpdates' = IF route'.reason = "routing_failure" THEN 0 ELSE 1
       /\ guardUpdates' <= 1]_vars

\* a request that was counted once and then timed out during its retry
GuardCountsRequestOnceWitness ==
    /\ spc = "generated"
    /\ guardUpdates = 1
    /\ Len(attempts) = 2
    /\ attempts[2].outcome = "timeout"
    /\ route.reason = "provider_timeout"
    /\ consecutive_strong > 0

(***************************************************************************)
(* Properties of the decisions and of the spike record.                    *)
(***************************************************************************)
\* the call of p is about to return its decision
AboutToReturn(p) == pc[p] \in {"update", "failed"}

\* C25: in every decision route() returns, downgraded is true if and only
\* if the reason is "consecutive_strong_limit" or "usage_spike", and then
\* the tier is standard and the tier selected for the intent was strong;
\* the reason is null if and only if the decision was neither downgraded
\* nor degraded by a fault; a decision with a strong tier has downgraded =
\* false and reason = null.
DecisionConsistent ==
    \A p \in Procs :
        AboutToReturn(p) =>
            LET d == RouteDecision(locals[p]) IN
            /\ d.downgraded <=> d.reason \in {"consecutive_strong_limit", "usage_spike"}
            /\ d.downgraded =>
                  /\ d.model_tier = "tier_standard"
                  /\ select_model(d.intent, d.message_length)
                        \in {"tier_reasoning", "tier_vision"}
            /\ d.reason = None <=> (~d.downgraded /\ pc[p] # "failed")
            /\ d.model_tier \in {"tier_reasoning", "tier_vision"} =>
                  (~d.downgraded /\ d.reason = None)

\* one call returns a downgrade while another returns a fault decision
DecisionConsistentWitness ==
    /\ \E p \in Procs : pc[p] = "update" /\ locals[p].reason = "usage_spike"
    /\ \E p \in Procs : pc[p] = "failed"

\* C26: when a strong candidate is checked while both the consecutive
\* limit and the spike threshold are reached, its decision is downgraded
\* with reason "consecutive_strong_limit"; the reason "usage_spike" is
\* given only when the consecutive limit is not reached.
ReasonPrecedence ==
    \A p \in Procs :
        pc[p] = "update" =>
            /\ (/\ Candidate(locals[p]) \in STRONG_TIERS
                /\ consecutive_strong >= MaxConsecutiveStrong
                /\ Len(strong_requests) >= SpikeThreshold)
                 => /\ locals[p].downgraded
                    /\ locals[p].selected_tier = TIER_STANDARD
                    /\ locals[p].reason = "consecutive_strong_limit"
            /\ locals[p].reason = "usage_spike"
                 => consecutive_strong < MaxConsecutiveStrong

\* a strong candidate decided while both limits are reached
ReasonPrecedenceWitness ==
    \E p \in Procs :
        /\ pc[p] = "update"
        /\ Candidate(locals[p]) \in STRONG_TIERS
        /\ consecutive_strong >= MaxConsecutiveStrong
        /\ Len(strong_requests) >= SpikeThreshold
        /\ locals[p].reason = "consecutive_strong_limit"

\* the spike record is the end of the history of the strong decisions, and
\* every entry of the history that is no longer in the record is older
\* than the window
RecordIsUnprunedHistory ==
    \E k \in 0..Len(admitted) :
        /\ strong_requests = SubSeq(admitted, k + 1, Len(admitted))
        /\ \A i \in 1..k : admitted[i] < clock - SpikeWindowSeconds

\* C27: a request the guard downgraded is not recorded as strong: its
\* route() call appends nothing to the spike record and does not increment
\* the counter; with one request after the other the spike record holds
\* exactly one timestamp for each request that was returned a strong tier
\* and is not pruned yet.
DowngradeNotRecorded ==
    /\ []RecordIsUnprunedHistory
    /\ [][(RouteStep /\ route'.downgraded) =>
            /\ consecutive_strong' = 0
            /\ Len(strong_requests') <= Len(strong_requests)
            /\ \A i \in 1..Len(strong_requests') :
                  strong_requests'[i]
                      = strong_requests[i + Len(strong_requests) - Len(strong_requests')]
          ]_vars

\* a downgraded request has gone through the guard: of the three strong
\* decisions before it one is pruned and two are in the record
DowngradeNotRecordedWitness ==
    /\ spc = "meta"
    /\ route.downgraded
    /\ consecutive_strong = 0
    /\ Len(admitted) = 3
    /\ Len(strong_requests) = 2

\* the strong decisions with a timestamp in the window that ends at t
StrongInWindow(t) ==
    {i \in 1..Len(admitted) : admitted[i] >= t - SpikeWindowSeconds /\ admitted[i] <= t}

\* C28: with one request after the other and a clock that never goes back,
\* at most spike_threshold requests that were returned a strong tier have a
\* timestamp in the window that ends now; and a request is downgraded with
\* usage_spike only if at least spike_threshold strong decisions before it
\* have a timestamp in the window that ends at its time.
SlidingWindowBound ==
    /\ [](Cardinality(StrongInWindow(clock)) <= SpikeThreshold)
    /\ [][(RouteStep /\ route'.reason = "usage_spike") =>
            Cardinality(StrongInWindow(clock)) >= SpikeThreshold]_vars

\* a request downgraded for a spike, the window full
SlidingWindowBoundWitness ==
    /\ spc = "meta"
    /\ route.reason = "usage_spike"
    /\ Cardinality(StrongInWindow(clock)) = SpikeThreshold
    /\ Len(admitted) > SpikeThreshold

\* the entries of events with the timestamp t
EntriesAt(events, t) == {i \in 1..Len(events) : events[i] = t}

\* the pruning step of the call of p
ExpireStep(p) == pc[p] = "expire" /\ pc'[p] = "check"

\* C29: the pruning of a call at time now removes from the front of the
\* spike record only timestamps strictly older than now minus
\* spike_window_seconds; a timestamp of exactly now minus
\* spike_window_seconds stays in the record, and the record that is left,
\* that timestamp included, is what is counted against spike_threshold for
\* the call.
WindowBoundary ==
    /\ [][\A p \in Procs :
             ExpireStep(p) =>
                 LET limit == locals[p].now - SpikeWindowSeconds
                     k == Len(strong_requests) - Len(strong_requests')
                 IN  /\ k >= 0
                     /\ strong_requests' =
                            SubSeq(strong_requests, k + 1, Len(strong_requests))
                     /\ \A i \in 1..k : strong_requests[i] < limit
                     /\ Cardinality(EntriesAt(strong_requests', limit)) =
                            Cardinality(EntriesAt(strong_requests, limit))]_vars
    /\ [](\A p \in Procs :
             (/\ pc[p] = "update"
              /\ Candidate(locals[p]) \in STRONG_TIERS
              /\ consecutive_strong < MaxConsecutiveStrong)
               => (locals[p].reason = "usage_spike"
                     <=> Len(strong_requests) >= SpikeThreshold))

\* a call downgraded for a spike by a record that an entry of exactly now
\* minus the window fills up to the threshold
WindowBoundaryWitness ==
    \E p \in Procs :
        /\ pc[p] = "update"
        /\ locals[p].reason = "usage_spike"
        /\ Len(strong_requests) = SpikeThreshold
        /\ EntriesAt(strong_requests, locals[p].now - SpikeWindowSeconds) # {}

\* C30: in the envelope generate_ai_response returns, fallback_used is true
\* if and only if the text is the literal fallback sentence; after a first
\* invocation that fails and a stabilized retry that succeeds the envelope
\* carries the generated text with fallback_used = false.
FallbackFlagIffFallbackText ==
    EnvelopeReturned => (fallback_used <=> ai_text = FatalFallbackText)

\* a provider invocation of the request is in progress
InvocationInProgress == spc \in {"attempt1", "attempt2"}

\* C31: when the deadline elapses while a provider invocation, the first
\* one or the retry, is in progress, the attempt is abandoned: the
\* invocation ends as a timeout and not as a provider failure, no retry is
\* started by it, and no provider invocation of the request is started
\* after the deadline or after the timeout.
DeadlineAbandons ==
    [][/\ (InvocationInProgress /\ ~TimedOut /\ TimedOut') =>
            /\ clock >= deadline
            /\ spc' = "generated"
            /\ attempts' = Settle(attempts, "timeout")
            /\ ai_text' = TimeoutFallbackText
       /\ (Len(attempts') > Len(attempts)) =>
            /\ ~TimedOut
            /\ clock <= deadline'
       /\ TimedOut => (attempts' = attempts \/ attempts' = <<>>)]_vars

\* the first invocation was abandoned at the deadline, no retry was started
\* and the clock went on
DeadlineAbandonsWitness ==
    /\ spc = "generated"
    /\ Len(attempts) = 1
    /\ attempts[1].outcome = "timeout"
    /\ clock > deadline

FailurePathStep(p) ==
    \/ pc[p] = "idle" /\ pc'[p] = "failed"
    \/ pc[p] = "failed" /\ pc'[p] = "idle"

\* C33: a call of route() whose classification or tier selection faulted,
\* before the critical section, leaves the guard as it is: the counter
\* keeps its value, nothing is pruned from the spike record and nothing is
\* appended to it, the lock is not touched; the tier it returns is
\* standard.
RoutingFailureFrame ==
    [][\A p \in Procs :
          FailurePathStep(p) =>
              /\ consecutive_strong' = consecutive_strong
              /\ strong_requests' = strong_requests
              /\ lock' = lock
              /\ pc[p] = "failed" =>
                    /\ RouteDecision(locals[p]).model_tier = TIER_STANDARD
                    /\ RouteDecision(locals[p]).reason = "routing_failure"]_vars

\* a faulted call returns while the counter is positive and the head of
\* the spike record is older than the window
RoutingFailureFrameWitness ==
    \E p \in Procs :
        /\ pc[p] = "failed"
        /\ consecutive_strong > 0
        /\ strong_requests # <<>>
        /\ Head(strong_requests) < clock - SpikeWindowSeconds

\* the calls of allow() for key that were allowed with a timestamp in the
\* window of the key's rule that ends at t
GrantedInWindow(key, t) ==
    {i \in 1..Len(granted[key]) :
        /\ granted[key][i] >= t - RuleOf(key).window_seconds
        /\ granted[key][i] <= t}

\* this step is a call of allow() for key
AllowStep(key) ==
    /\ wall' = wall
    /\ allowed'.key = key
    /\ <<limiter_events, allowed, granted>>' # <<limiter_events, allowed, granted>>

\* C34: for every key the number of allowed requests with a timestamp in
\* the trailing window of its rule never exceeds the limit of the rule; a
\* rejected request leaves the queue of its key as it was and returns
\* retry_after >= 1; a call for a key never changes the queue of another
\* key.
RateLimitBound ==
    /\ [](\A key \in RateKeys :
             Cardinality(GrantedInWindow(key, wall)) <= RuleOf(key).limit)
    /\ [][\A key \in RateKeys :
             AllowStep(key) =>
                 /\ ~allowed'.allowed =>
                       /\ limiter_events' = limiter_events
                       /\ granted' = granted
                       /\ allowed'.retry_after >= 1
                 /\ allowed'.allowed =>
                       /\ allowed'.retry_after = 0
                       /\ granted'[key] = Append(granted[key], wall)
                 /\ \A other \in RateKeys \ {key} :
                       limiter_events'[other] = limiter_events[other]]_vars

\* a request rejected for a full window while the other key has a queue of
\* its own and an older request of the rejected key has left the window
RateLimitBoundWitness ==
    \E key \in RateKeys :
        /\ allowed.key = key
        /\ ~allowed.allowed
        /\ allowed.retry_after > 1
        /\ Len(limiter_events[key]) = RuleOf(key).limit
        /\ Len(granted[key]) > RuleOf(key).limit
        /\ \E other \in RateKeys \ {key} : limiter_events[other] # <<>>

\* this step is a call of POST /auth/login for key that changed something
LoginStep(key) ==
    /\ wall' = wall
    /\ response'.endpoint = "login"
    /\ response'.key = key
    /\ <<login_attempts, response>>' # <<login_attempts, response>>

\* the registered failures of key reach MAX_LOGIN_ATTEMPTS with this step
BlockingStep(key) ==
    /\ LoginStep(key)
    /\ login_attempts[key].found
    /\ login_attempts[key].count = MAX_LOGIN_ATTEMPTS - 1
    /\ login_attempts[key].blocked_until <= wall
    /\ wall - login_attempts[key].first_attempt <= LOGIN_WINDOW_SECONDS
    /\ login_attempts'[key].count = MAX_LOGIN_ATTEMPTS

\* the block of key has expired and no failure was registered since
BlockExpired(key) ==
    /\ login_attempts[key].found
    /\ login_attempts[key].count >= MAX_LOGIN_ATTEMPTS
    /\ login_attempts[key].blocked_until <= wall

\* the key is blocked from the MAX_LOGIN_ATTEMPTS-th failure within the
\* window for LOGIN_BLOCK_SECONDS, and every login is refused until then
BlockedUntilExpiry ==
    \A key \in LoginKeys :
        /\ BlockingStep(key) =>
              /\ login_attempts'[key].blocked_until = wall + LOGIN_BLOCK_SECONDS
              /\ response'.status = 429
        /\ (LoginStep(key) /\ login_attempts[key].blocked_until > wall) =>
              /\ response'.status = 429
              /\ login_attempts' = login_attempts
              /\ sessions' = sessions

\* C35: a key is blocked for LOGIN_BLOCK_SECONDS when the
\* MAX_LOGIN_ATTEMPTS-th failed login is registered within
\* LOGIN_WINDOW_SECONDS of the first one, and logins are refused until
\* blocked_until; once the block has expired (now >= blocked_until) the
\* failure count starts afresh: one failed login at or after the expiry is
\* answered 401, is counted as the first failure and does not block the key
\* again.
LoginLockout ==
    [][/\ BlockedUntilExpiry
       /\ \A key \in LoginKeys :
             (LoginStep(key) /\ BlockExpired(key) /\ response'.status # 200) =>
                 /\ response'.status = 401
                 /\ login_attempts'[key].count = 1
                 /\ login_attempts'[key].blocked_until <= wall]_vars

\* a rotation of the session of token has issued a later bundle: token is a
\* previous refresh token of its session
Superseded(token) ==
    \E later \in tokens : later.sid = token.sid /\ later.jti > token.jti

\* this step is a call of POST /auth/refresh with token that changed
\* something
PresentStep(token) ==
    /\ wall' = wall
    /\ response'.endpoint = "refresh"
    /\ response'.token = token
    /\ <<response, sessions, tokens>>' # <<response, sessions, tokens>>

\* every session of the user is revoked after the step
AllRevoked(user_id) ==
    \A sid \in SessionIds :
        (sessions[sid].found /\ sessions[sid].user_id = user_id)
          => sessions'[sid].revoked = 1

\* a revoked session stays revoked, and a request with a token of a revoked
\* session is neither refreshed nor authenticated
RevokedForGood ==
    /\ \A sid \in SessionIds :
          (sessions[sid].found /\ sessions[sid].revoked = 1)
            => (sessions'[sid].found /\ sessions'[sid].revoked = 1)
    /\ \A token \in tokens :
          (/\ sessions[token.sid].revoked = 1
           /\ response' # response
           /\ response'.token = token
           /\ response'.endpoint \in {"refresh", "auth"})
            => (response'.status = 401 /\ tokens' = tokens)

\* C36 as stated: presenting a previous refresh token of a session never
\* yields new tokens and revokes every session of the user, whatever the
\* state of the token and of the session; a revoked session is never
\* un-revoked and never refreshes or authenticates again.
RefreshSingleUseRevokesAll ==
    [][/\ \A token \in tokens :
             (Superseded(token) /\ PresentStep(token)) =>
                 /\ response'.status = 401
                 /\ tokens' = tokens
                 /\ AllRevoked(token.user_id)
       /\ RevokedForGood]_vars

\* C36: presenting a previous refresh token of a session never yields new
\* tokens; when the token has not expired and the session is neither
\* revoked nor expired by inactivity, every session of the user is revoked,
\* the one of the token issued by the rotation too; when the session has
\* expired by inactivity that session is revoked; a token that has expired
\* and a session that is already revoked leave the sessions as they are.  A
\* revoked session is never un-revoked and never refreshes or
\* authenticates again.
RefreshSingleUse ==
    [][/\ \A token \in tokens :
             (Superseded(token) /\ PresentStep(token)) =>
                 /\ response'.status = 401
                 /\ response'.issued = NoToken
                 /\ tokens' = tokens
                 /\ IF ~RefreshTokenValid(token, wall)
                       \/ sessions[token.sid].revoked = 1
                    THEN sessions' = sessions
                    ELSE IF session_expired(sessions[token.sid].last_active, wall)
                    THEN sessions' = revoke_session(sessions, token.sid)
                    ELSE AllRevoked(token.user_id)
       /\ RevokedForGood]_vars

\* a previous refresh token was presented and the two sessions of its user
\* are revoked, the one whose rotation issued the latest bundle included
RefreshSingleUseWitness ==
    /\ response.endpoint = "refresh"
    /\ response.message = "Compromised session detected"
    /\ Superseded(response.token)
    /\ \A sid \in SessionIds :
          /\ sessions[sid].found
          /\ sessions[sid].user_id = response.token.user_id
          /\ sessions[sid].revoked = 1

TypeOK ==
    /\ consecutive_strong \in Nat
    /\ lock \in 0..NumProcs
    /\ clock \in Clock
    /\ connected \in BOOLEAN
    /\ deadline \in 0..(MaxClock + AiTimeoutSeconds)

====
